---- MODULE Spec2Model ----
(***************************************************************************)
(* Model of the parser generation loop (src/utils/parser-generator.ts),    *)
(* the parser cache kept in browser.storage.local, the page-context code   *)
(* executor (src/utils/code-executor.ts) and the multi-page crawl of the   *)
(* popup (scrapeAllPagesBtn / stopScraperBtn click handlers).              *)
(*                                                                         *)
(* Strings that the code inspects character by character (host names,      *)
(* path names, storage keys) are sequences of one-character strings.       *)
(* browser.storage.local is taken to be reliable (get/set/remove do not    *)
(* reject), as is saveFile, which catches every error itself.              *)
(***************************************************************************)
EXTENDS Integers, Sequences, FiniteSets, TLC

\* ------------------------------------------------------------------------
\* Bounds of the model
\* ------------------------------------------------------------------------

\* largest value the user may type into max-pages-input
MaxPagesBound == 5

\* largest number of products generated code returns for one page
MaxProducts == 2

\* number of crawls started by the user in one behaviour that are followed
MaxCrawls == 2

\* number of calls of generateAndSaveParser in one behaviour
MaxGenCalls == 2

\* number of calls of navigateAndExtractMarkdown in one behaviour
MaxNavCalls == 2

\* number of parsers in the storage a lookup is made on
MaxEntries == 2

\* ------------------------------------------------------------------------
\* Program constants
\* ------------------------------------------------------------------------

MAX_ITERATIONS == 3

maxConsecutiveFailures == 2

\* navigation attempts per page: for (navAttempt = 0; navAttempt < 3; ...)
MaxNavAttempts == 3

\* ------------------------------------------------------------------------
\* Strings
\* ------------------------------------------------------------------------

StartsWith(s, p) == Len(p) <= Len(s) /\ SubSeq(s, 1, Len(p)) = p

\* s.replace(/\/$/, '')
StripTrailingSlash(s) ==
    IF Len(s) > 0 /\ s[Len(s)] = "/" THEN SubSeq(s, 1, Len(s) - 1) ELSE s

\* s.replace(/^www\./, '')
StripWww(s) ==
    IF StartsWith(s, <<"w", "w", "w", ".">>) THEN SubSeq(s, 5, Len(s)) ELSE s

\* the character class [\\/:*?"<>|]
InvalidFilenameChars == {"\\", "/", ":", "*", "?", "\"", "<", ">", "|"}

\* s.replace(/[\\/:*?"<>|]/g, '_')
ReplaceInvalidChars(s) ==
    [i \in 1..Len(s) |-> IF s[i] \in InvalidFilenameChars THEN "_" ELSE s[i]]

\* the character class \s, restricted to the characters of the model
Whitespace == {" ", "\t", "\n"}

\* s.replace(/\s+/g, '_'): every maximal run of whitespace becomes one '_'
RECURSIVE CollapseWhitespace(_)
CollapseWhitespace(s) ==
    IF s = <<>> THEN <<>>
    ELSE IF s[1] \in Whitespace
         THEN IF Len(s) > 1 /\ s[2] \in Whitespace
              THEN CollapseWhitespace(Tail(s))
              ELSE <<"_">> \o CollapseWhitespace(Tail(s))
         ELSE <<s[1]>> \o CollapseWhitespace(Tail(s))

\* ------------------------------------------------------------------------
\* URLs.  A url string is either one that `new URL()` parses, kept as its
\* parsed parts, or one that it rejects, kept as its raw characters.
\* ------------------------------------------------------------------------

HTTPS == <<"h", "t", "t", "p", "s", ":">>
HTTP == <<"h", "t", "t", "p", ":">>

ParsedUrl(protocol, hostname, pathname, search) ==
    [protocol |-> protocol, hostname |-> hostname,
     pathname |-> pathname, search |-> search]

RawUrl(chars) == [raw |-> chars]

\* new URL(u) does not throw
IsParseable(u) == "protocol" \in DOMAIN u

\* the url string itself (urlObj.href)
Href(u) ==
    IF IsParseable(u)
    THEN u.protocol \o <<"/", "/">> \o u.hostname \o u.pathname \o u.search
    ELSE u.raw

\* normalizeUrlForStorage replacing the invalid characters only in the
\* fallback branch
normalizeUrlForStorage_FallbackOnly(url) ==
    IF IsParseable(url)
    THEN StripTrailingSlash(StripWww(url.hostname) \o url.pathname)
    ELSE CollapseWhitespace(ReplaceInvalidChars(url.raw))

normalizeUrlForStorage(url) ==
    IF IsParseable(url)
    THEN CollapseWhitespace(ReplaceInvalidChars(
             StripTrailingSlash(StripWww(url.hostname) \o url.pathname)))
    ELSE CollapseWhitespace(ReplaceInvalidChars(url.raw))

\* isUrlPrefix comparing the paths as strings, not segment by segment
isUrlPrefix_Substring(savedUrl, currentUrl) ==
    IF IsParseable(savedUrl) /\ IsParseable(currentUrl)
    THEN IF savedUrl.protocol # currentUrl.protocol
            \/ savedUrl.hostname # currentUrl.hostname
         THEN FALSE
         ELSE LET savedPath == StripTrailingSlash(savedUrl.pathname)
                  currentPath == currentUrl.pathname
              IN  StartsWith(currentPath, savedPath)
    ELSE StartsWith(Href(currentUrl), Href(savedUrl))

isUrlPrefix(savedUrl, currentUrl) ==
    IF IsParseable(savedUrl) /\ IsParseable(currentUrl)
    THEN IF savedUrl.protocol # currentUrl.protocol
            \/ savedUrl.hostname # currentUrl.hostname
         THEN FALSE
         ELSE LET savedPath == StripTrailingSlash(savedUrl.pathname)
                  currentPath == currentUrl.pathname
              IN  currentPath = savedPath
                  \/ StartsWith(currentPath, savedPath \o <<"/">>)
    ELSE StartsWith(Href(currentUrl), Href(savedUrl))

\* host names and path names of the pages visited in the model
HostA == <<"a">>
HostWwwA == <<"w", "w", "w", ".", "a">>
HostB == <<"b">>

PathRoot == <<"/">>
PathS == <<"/", "s">>
PathSSlash == <<"/", "s", "/">>
PathSX == <<"/", "s", "/", "x">>
PathSh == <<"/", "s", "h">>
PathSXY == <<"/", "s", "/", "x", "/", "y">>
PathSUnderscoreX == <<"/", "s", "_", "x">>

\* the pages for which a parser is generated
PageUrls ==
    {ParsedUrl(HTTPS, HostA, PathS, <<>>),
     ParsedUrl(HTTPS, HostA, PathSX, <<>>),
     ParsedUrl(HTTPS, HostWwwA, PathSSlash, <<>>),
     ParsedUrl(HTTPS, HostA, PathSh, <<>>),
     ParsedUrl(HTTPS, HostB, PathRoot, <<>>)}

\* ------------------------------------------------------------------------
\* Generated code, its execution and the validation of its result
\* ------------------------------------------------------------------------

\* what evaluating a piece of generated code on a text leads to:
\* an exception, an array of products, or a value that is not an array
\* a product: an object with a truthy name, priceRaw or priceNormalized
Named == [name |-> TRUE]
\* an object with none of the three fields truthy
Blank == [name |-> FALSE]
\* null / undefined
Null == [isNull |-> TRUE]

\* the products of a listing page: the i-th product of page p
Product(p, i) == [name |-> TRUE, page |-> p, index |-> i]

Throws == [kind |-> "throw"]
ReturnsArray(items) == [kind |-> "array", items |-> items]
ReturnsValue(v) == [kind |-> "value", value |-> v]

Truthy(v) == "isNull" \notin DOMAIN v

\* executeParserCode: the outcome of the call given what the code did in
\* the page: an exception is rethrown, an array is returned as it is, any
\* other value v is returned as [v].filter(Boolean)
executeParserCode(raw) ==
    CASE raw.kind = "throw" -> [threw |-> TRUE, products |-> <<>>]
      [] raw.kind = "array" -> [threw |-> FALSE, products |-> raw.items]
      [] raw.kind = "value" ->
            [threw |-> FALSE,
             products |-> IF Truthy(raw.value) THEN <<raw.value>> ELSE <<>>]

ErrNotArray == "The parser did not return an array"
ErrEmptyArray == "The parser returned an empty array"
ErrLackFields == "The parser returned products but they lack essential fields"
ErrExecution == "Execution error"
ErrMissingCode == "The LLM response does not contain a code field"
ErrTransport == "OpenRouter error"
NoError == "null"

\* the values validateExtractedProducts is called with: an array, or a
\* value for which Array.isArray is false
Array(items) == [isArray |-> TRUE, items |-> items]
NotArray(v) == [isArray |-> FALSE, value |-> v]

\* a truthy value that is not an object (a number, a string)
Primitive == [primitive |-> TRUE]

\* product && typeof product === 'object'
IsObject(v) == Truthy(v) /\ "primitive" \notin DOMAIN v

\* product[f] is truthy
Field(v, f) == f \in DOMAIN v /\ v[f]

\* validateExtractedProducts accepting only products that have a name
validateExtractedProducts_NameOnly(products) ==
    IF ~products.isArray
    THEN [isValid |-> FALSE, error |-> ErrNotArray]
    ELSE IF Len(products.items) = 0
    THEN [isValid |-> FALSE, error |-> ErrEmptyArray]
    ELSE IF \E i \in 1..Len(products.items) :
                 /\ IsObject(products.items[i])
                 /\ Field(products.items[i], "name")
         THEN [isValid |-> TRUE, error |-> NoError]
         ELSE [isValid |-> FALSE, error |-> ErrLackFields]

validateExtractedProducts(products) ==
    IF ~products.isArray
    THEN [isValid |-> FALSE, error |-> ErrNotArray]
    ELSE IF Len(products.items) = 0
    THEN [isValid |-> FALSE, error |-> ErrEmptyArray]
    ELSE IF \E i \in 1..Len(products.items) :
                 /\ IsObject(products.items[i])
                 /\ \/ Field(products.items[i], "name")
                    \/ Field(products.items[i], "priceRaw")
                    \/ Field(products.items[i], "priceNormalized")
         THEN [isValid |-> TRUE, error |-> NoError]
         ELSE [isValid |-> FALSE, error |-> ErrLackFields]

\* The code strings the language model produces, each with what it does on
\* the sample text.  EmptyCode is the empty string.
EmptyCode == ""

Codes == {"cThrow", "cEmpty", "cBlank", "cNull", "cObject", "cOne"}

RunOnSample(code) ==
    CASE code = "cThrow" -> Throws
      [] code = "cEmpty" -> ReturnsArray(<<>>)
      [] code = "cBlank" -> ReturnsArray(<<Blank>>)
      [] code = "cNull" -> ReturnsValue(Null)
      [] code = "cObject" -> ReturnsValue(Named)
      [] code = "cOne" -> ReturnsArray(<<Blank, Named>>)

\* outcomes of callOpenRouter followed by the extraction of the code field:
\* the call rejects, or it returns a response whose code field is `code`
TransportError == [kind |-> "error"]
Response(code) == [kind |-> "response", code |-> code]

ModelOutcomes == {TransportError} \cup {Response(c) : c \in Codes \cup {EmptyCode}}

\* parseLLMResponse, last step: a falsy code field is an error
parseLLMResponse(response) ==
    IF response.code = EmptyCode
    THEN [threw |-> TRUE, code |-> EmptyCode]
    ELSE [threw |-> FALSE, code |-> response.code]

\* ------------------------------------------------------------------------
\* State
\* ------------------------------------------------------------------------

VARIABLES
    cache,          \* browser.storage.local: storage key -> [code, url]
    genPc,          \* position of generateAndSaveParser
    genUrl,         \* its pageUrl argument
    genTab,         \* whether a tabId was passed
    iteration,      \* loop variable of the reflection loop
    lastCode,       \* lastCode (EmptyCode for null)
    lastError,      \* lastError (NoError for null)
    genResult,      \* value the call returned, EmptyCode if none
    modelCalls,     \* calls of callOpenRouter of the current call that settled
    execCalls,      \* calls of executeParserCode of the current call that settled
    cacheWrites,    \* calls of storage.local.set made by the current call
    attempts,       \* per iteration of the current call: code and outcome
    genCalls,       \* calls of generateAndSaveParser made so far
    prompt,         \* the user message of the request being sent to the model
    superseded,     \* the storage keys the current call removed at its start
    crawlPc,        \* position of the scrapeAllPagesBtn click handler
    crawlUrl,       \* baseUrl, the url of the tab when the crawl starts
    savedCode,      \* savedCode, what loadSavedParserCode returned
    shouldStopScraper,  \* the module-level cancellation flag
    stopBtnEnabled, \* the stop button is shown and not disabled
    maxPages,       \* maxPages
    pageNumber,     \* pageNumber
    hasMorePages,   \* hasMorePages
    consecutiveFailures, \* consecutiveFailures
    allProducts,    \* allProducts
    navAttempt,     \* navAttempt
    wasStopped,     \* wasStopped
    saveCalls,      \* calls of saveFile made by the current crawl
    savedContent,   \* the products handed to saveFile
    crawlOutcome,   \* how the handler ended: text of the button, or error
    pageLog,        \* the pages evaluated by the current crawl, in order
    navigated,      \* the page numbers the tab was navigated to
    stopAt,         \* where the crawl was when the stop button was clicked
    crawls,         \* clicks on scrapeAllPagesBtn so far
    navTarget,      \* the url argument of navigateAndExtractMarkdown
    navPromise,     \* the promise it returned: pending, resolved, rejected
    navOutcome,     \* what settled the promise
    resolved,       \* the local flag `resolved`
    listening,      \* onUpdatedListener is registered on tabs.onUpdated
    timeoutArmed,   \* the 30 s timer is set and not cleared
    updatePromise,  \* the promise of browser.tabs.update
    getPromise,     \* the promise of browser.tabs.get
    navPhase,       \* where the callback started by a match is
    probes,         \* pings sent to the content script
    injections,     \* calls of scripting.executeScript
    extractions,    \* calls of extractPageContent
    firstEvent,     \* which of match, timeout, navigation error came first
    matchedUrl,     \* the url reported by the event that was taken as match
    extractionStarts, \* times the stabilise-and-extract callback was set up
    settleCalls,    \* calls of resolve or reject
    navCalls,       \* calls of navigateAndExtractMarkdown so far
    lookupPc,       \* position of a call of loadSavedParserCode
    lookupUrl,      \* its pageUrl argument
    storageFault,   \* which storage.local.get of the call rejects, if any
    lookupResult,   \* the value it returned (EmptyCode for null)
    callPc,         \* position of a call of one of the helper functions
    callArg,        \* the argument of that call
    callResults,    \* what the function returned, one entry per application
    saveJsonBtnDisabled,        \* saveJsonBtn.disabled
    obtainProductsBtnDisabled,  \* obtainProductsBtn.disabled
    scrapeAllPagesBtnDisabled,  \* scrapeAllPagesBtn.disabled
    handlers        \* the click handlers of the popup started so far

genVars == <<cache, genPc, genUrl, genTab, iteration, lastCode, lastError,
             genResult, modelCalls, execCalls, cacheWrites, attempts,
             genCalls, prompt, superseded>>

crawlVars == <<crawlPc, crawlUrl, savedCode, shouldStopScraper, stopBtnEnabled,
               maxPages, pageNumber, hasMorePages, consecutiveFailures,
               allProducts, navAttempt, wasStopped, saveCalls, savedContent,
               crawlOutcome, pageLog, navigated, stopAt, crawls>>

navVars == <<navTarget, navPromise, navOutcome, resolved, listening,
             timeoutArmed, updatePromise, getPromise, navPhase, probes,
             injections, extractions, firstEvent, matchedUrl,
             extractionStarts, settleCalls, navCalls>>

lookupVars == <<lookupPc, lookupUrl, storageFault, lookupResult>>

callVars == <<callPc, callArg, callResults>>

popupVars == <<saveJsonBtnDisabled, obtainProductsBtnDisabled,
               scrapeAllPagesBtnDisabled, handlers>>

vars == <<genVars, crawlVars, navVars, lookupVars, callVars, popupVars>>

NoUrl == RawUrl(<<>>)

StorageKey(url) == normalizeUrlForStorage(url)

\* storage.local.set({[key]: {code, url, ...}})
CacheSet(c, key, code, url) ==
    [k \in DOMAIN c \cup {key} |->
        IF k = key THEN [code |-> code, url |-> url] ELSE c[k]]

\* storage.local.remove(keys)
CacheRemove(c, keys) == [k \in DOMAIN c \ keys |-> c[k]]

\* keysToRemove without the entries whose url the new url is a prefix of
keysToRemove_OneWay(c, pageUrl) ==
    {k \in DOMAIN c : isUrlPrefix(c[k].url, pageUrl)}

\* the keys generateAndSaveParser removes before its loop
keysToRemove(c, pageUrl) ==
    {k \in DOMAIN c : isUrlPrefix(c[k].url, pageUrl)
                      \/ isUrlPrefix(pageUrl, c[k].url)}

\* the user message of iteration 1, and generateReflectionPrompt
InitialPrompt ==
    [variant |-> "initial", previousCode |-> EmptyCode, error |-> NoError,
     iteration |-> 0]

generateReflectionPrompt(previousCode, error, iter) ==
    [variant |-> "reflection", previousCode |-> previousCode, error |-> error,
     iteration |-> iter]

NoPrompt ==
    [variant |-> "none", previousCode |-> EmptyCode, error |-> NoError,
     iteration |-> 0]

\* lastError || 'Unknown error'
OrUnknown(error) == IF error = NoError THEN "Unknown error" ELSE error

EmptyCache == [k \in {} |-> [code |-> EmptyCode, url |-> NoUrl]]

\* generateAndSaveParser has not been called
GenIdle ==
    /\ genPc = "idle"
    /\ genUrl = NoUrl
    /\ genTab = FALSE
    /\ iteration = 0
    /\ lastCode = EmptyCode
    /\ lastError = NoError
    /\ genResult = EmptyCode
    /\ modelCalls = 0
    /\ execCalls = 0
    /\ cacheWrites = 0
    /\ attempts = <<>>
    /\ genCalls = 0
    /\ prompt = NoPrompt
    /\ superseded = {}

\* ------------------------------------------------------------------------
\* generateAndSaveParser
\* ------------------------------------------------------------------------

Attempt(code, outcome) == [code |-> code, outcome |-> outcome]

\* a call starts: related entries are removed, the loop is entered and the
\* first request is sent to the model
GenStart ==
    /\ genPc \in {"idle", "returned", "failed"}
    /\ UNCHANGED <<crawlVars, navVars, lookupVars, callVars, popupVars>>
    /\ genCalls < MaxGenCalls
    /\ genCalls' = genCalls + 1
    /\ \E url \in PageUrls, tab \in BOOLEAN :
          /\ genUrl' = url
          /\ genTab' = tab
          /\ cache' = CacheRemove(cache, keysToRemove(cache, url))
          /\ superseded' = keysToRemove(cache, url)
    /\ iteration' = 1
    /\ lastCode' = EmptyCode
    /\ lastError' = NoError
    /\ genResult' = EmptyCode
    /\ modelCalls' = 0
    /\ execCalls' = 0
    /\ cacheWrites' = 0
    /\ attempts' = <<>>
    /\ prompt' = InitialPrompt
    /\ genPc' = "callModel"

\* `continue`: the next iteration builds its reflection prompt from
\* lastCode and lastError and sends it
NextIteration(code, error) ==
    /\ iteration' = iteration + 1
    /\ prompt' = generateReflectionPrompt(code, OrUnknown(error), iteration)
    /\ genPc' = "callModel"

\* PersistAndReturn without its `return`: the loop goes on after the save
PersistAndReturn_NoReturn(code, outcome) ==
    /\ cache' = CacheSet(cache, StorageKey(genUrl), code, genUrl)
    /\ cacheWrites' = cacheWrites + 1
    /\ attempts' = Append(attempts, Attempt(code, outcome))
    /\ IF iteration < MAX_ITERATIONS
       THEN /\ NextIteration(code, lastError)
            /\ UNCHANGED genResult
       ELSE /\ genResult' = code
            /\ genPc' = "returned"
            /\ UNCHANGED <<iteration, prompt>>

\* PersistAndReturn without its storage.local.set
PersistAndReturn_NoStore(code, outcome) ==
    /\ UNCHANGED <<cache, cacheWrites>>
    /\ genResult' = code
    /\ attempts' = Append(attempts, Attempt(code, outcome))
    /\ genPc' = "returned"
    /\ UNCHANGED <<iteration, prompt>>

\* saveFile, storage.local.set and `return parsedResponse.code`
PersistAndReturn(code, outcome) ==
    /\ cache' = CacheSet(cache, StorageKey(genUrl), code, genUrl)
    /\ cacheWrites' = cacheWrites + 1
    /\ genResult' = code
    /\ attempts' = Append(attempts, Attempt(code, outcome))
    /\ genPc' = "returned"
    /\ UNCHANGED <<iteration, prompt>>

\* CatchIterationError comparing the iteration with a budget one too large
CatchIterationError_OffByOne(code, outcome, message, errBefore) ==
    /\ attempts' = Append(attempts, Attempt(code, outcome))
    /\ UNCHANGED <<cache, cacheWrites, genResult>>
    /\ IF iteration = MAX_ITERATIONS + 1
       THEN /\ genPc' = "failed"
            /\ lastError' = errBefore
            /\ UNCHANGED <<iteration, prompt>>
       ELSE /\ lastError' = message
            /\ NextIteration(lastCode, message)

\* CatchIterationError rethrowing whatever the iteration
CatchIterationError_Rethrow(code, outcome, message, errBefore) ==
    /\ attempts' = Append(attempts, Attempt(code, outcome))
    /\ UNCHANGED <<cache, cacheWrites, genResult>>
    /\ genPc' = "failed"
    /\ lastError' = errBefore
    /\ UNCHANGED <<iteration, prompt>>

\* CatchIterationError repeating the iteration instead of moving to the
\* next one
CatchIterationError_SameIteration(code, outcome, message, errBefore) ==
    /\ attempts' = Append(attempts, Attempt(code, outcome))
    /\ UNCHANGED <<cache, cacheWrites, genResult>>
    /\ IF iteration = MAX_ITERATIONS
       THEN /\ genPc' = "failed"
            /\ lastError' = errBefore
            /\ UNCHANGED <<iteration, prompt>>
       ELSE /\ lastError' = message
            /\ prompt' = generateReflectionPrompt(lastCode, OrUnknown(message),
                                                  iteration)
            /\ genPc' = "callModel"
            /\ UNCHANGED iteration

\* the outer catch block: rethrow on the last iteration, otherwise record
\* the message and go on with the next iteration
\* (errBefore is lastError as the try block left it)
CatchIterationError(code, outcome, message, errBefore) ==
    /\ attempts' = Append(attempts, Attempt(code, outcome))
    /\ UNCHANGED <<cache, cacheWrites, genResult>>
    /\ IF iteration = MAX_ITERATIONS
       THEN /\ genPc' = "failed"
            /\ lastError' = errBefore
            /\ UNCHANGED <<iteration, prompt>>
       ELSE /\ lastError' = message
            /\ NextIteration(lastCode, message)

\* GenModelReply executing the parsed code whether a tabId was passed or not
GenModelReply_AlwaysExecutes ==
    /\ genPc = "callModel"
    /\ UNCHANGED <<crawlVars, navVars, lookupVars, callVars, popupVars>>
    /\ modelCalls' = modelCalls + 1
    /\ UNCHANGED <<genUrl, genTab, execCalls, genCalls, superseded>>
    /\ \E reply \in ModelOutcomes :
          IF reply.kind = "error"
          THEN /\ CatchIterationError(EmptyCode, "transport", ErrTransport,
                                      lastError)
               /\ UNCHANGED lastCode
          ELSE LET parsed == parseLLMResponse(reply)
               IN  IF parsed.threw
                   THEN /\ CatchIterationError(EmptyCode, "malformed",
                                               ErrMissingCode, lastError)
                        /\ UNCHANGED lastCode
                   ELSE /\ lastCode' = parsed.code
                        /\ genPc' = "execute"
                        /\ UNCHANGED <<cache, cacheWrites, genResult,
                                       attempts, iteration, lastError,
                                       prompt>>

\* generateParserCode settles: the model call rejected, or its response was
\* parsed; without a tabId the code is saved at once
GenModelReply ==
    /\ genPc = "callModel"
    /\ UNCHANGED <<crawlVars, navVars, lookupVars, callVars, popupVars>>
    /\ modelCalls' = modelCalls + 1
    /\ UNCHANGED <<genUrl, genTab, execCalls, genCalls, superseded>>
    /\ \E reply \in ModelOutcomes :
          IF reply.kind = "error"
          THEN /\ CatchIterationError(EmptyCode, "transport", ErrTransport,
                                      lastError)
               /\ UNCHANGED lastCode
          ELSE LET parsed == parseLLMResponse(reply)
               IN  IF parsed.threw
                   THEN /\ CatchIterationError(EmptyCode, "malformed",
                                               ErrMissingCode, lastError)
                        /\ UNCHANGED lastCode
                   ELSE /\ lastCode' = parsed.code
                        /\ IF genTab
                           THEN /\ genPc' = "execute"
                                /\ UNCHANGED <<cache, cacheWrites, genResult,
                                               attempts, iteration, lastError,
                                               prompt>>
                           ELSE /\ PersistAndReturn(parsed.code, "unvalidated")
                                /\ UNCHANGED lastError

\* ExecutionFailed rethrowing whatever the iteration
ExecutionFailed_Rethrow ==
    CatchIterationError_Rethrow(lastCode, "execError", ErrExecution,
                                ErrExecution)

\* the inner catch block: lastError is set, then `continue` or rethrow,
\* and the rethrown error reaches the outer catch on the last iteration
ExecutionFailed ==
    IF iteration < MAX_ITERATIONS
    THEN /\ lastError' = ErrExecution
         /\ NextIteration(lastCode, ErrExecution)
         /\ attempts' = Append(attempts, Attempt(lastCode, "execError"))
         /\ UNCHANGED <<cache, cacheWrites, genResult>>
    ELSE CatchIterationError(lastCode, "execError", ErrExecution,
                             ErrExecution)

\* ValidationFailed giving up on the last iteration instead of saving
ValidationFailed_GiveUp(error) ==
    /\ lastError' = error
    /\ attempts' = Append(attempts, Attempt(lastCode, "invalid"))
    /\ UNCHANGED <<cache, cacheWrites, genResult>>
    /\ IF iteration < MAX_ITERATIONS
       THEN NextIteration(lastCode, error)
       ELSE /\ genPc' = "failed"
            /\ UNCHANGED <<iteration, prompt>>

\* the branch of a failed validation: retry, or save anyway at the end
ValidationFailed(error) ==
    /\ lastError' = error
    /\ IF iteration < MAX_ITERATIONS
       THEN /\ NextIteration(lastCode, error)
            /\ attempts' = Append(attempts, Attempt(lastCode, "invalid"))
            /\ UNCHANGED <<cache, cacheWrites, genResult>>
       ELSE PersistAndReturn(lastCode, "invalid")

\* executeParserCode settles and its result is validated
GenExecuted ==
    /\ genPc = "execute"
    /\ UNCHANGED <<crawlVars, navVars, lookupVars, callVars, popupVars>>
    /\ execCalls' = execCalls + 1
    /\ UNCHANGED <<genUrl, genTab, modelCalls, lastCode, genCalls,
                   superseded>>
    /\ LET run == executeParserCode(RunOnSample(lastCode))
           validation == validateExtractedProducts(Array(run.products))
       IN  IF run.threw
           THEN ExecutionFailed
           ELSE IF validation.isValid
                THEN /\ PersistAndReturn(lastCode, "accepted")
                     /\ UNCHANGED lastError
                ELSE ValidationFailed(validation.error)

GenNext == GenStart \/ GenModelReply \/ GenExecuted

\* ------------------------------------------------------------------------
\* loadSavedParserCode
\* ------------------------------------------------------------------------

\* the entries the prefix search looks at: those with a url and a code
parserEntries(c) == {k \in DOMAIN c : c[k].code # EmptyCode}

\* the entry stored under the key of pageUrl exists and has a code
hasExactMatch(c, pageUrl) ==
    /\ StorageKey(pageUrl) \in DOMAIN c
    /\ c[StorageKey(pageUrl)].code # EmptyCode

\* the codes the prefix search may return: that of the first prefix match
\* among the entries sorted by decreasing length of their url; entries of
\* equal length keep the order of the storage listing, which the code does
\* not control
prefixMatch(c, pageUrl) ==
    LET matching == {k \in parserEntries(c) : isUrlPrefix(c[k].url, pageUrl)}
        first == {k \in matching :
                     \A o \in matching :
                         Len(Href(c[o].url)) <= Len(Href(c[k].url))}
    IN  {c[k].code : k \in first}

\* loadSavedParserCodeOn looking for a prefix match before the exact one
loadSavedParserCodeOn_PrefixFirst(c, pageUrl, fault) ==
    IF fault = "exactGet"
    THEN {EmptyCode}
    ELSE IF fault # "listGet" /\ prefixMatch(c, pageUrl) # {}
         THEN prefixMatch(c, pageUrl)
         ELSE IF hasExactMatch(c, pageUrl)
              THEN {c[StorageKey(pageUrl)].code}
              ELSE {EmptyCode}

\* the values loadSavedParserCode may return for pageUrl (EmptyCode for
\* null) when the storage behaves as `fault` says: the code of the exact-key
\* entry, else that of the prefix search, else null; a storage.local.get
\* that rejects is caught and null is returned
loadSavedParserCodeOn(c, pageUrl, fault) ==
    IF fault = "exactGet"
    THEN {EmptyCode}
    ELSE IF hasExactMatch(c, pageUrl)
         THEN {c[StorageKey(pageUrl)].code}
         ELSE IF fault = "listGet" \/ prefixMatch(c, pageUrl) = {}
              THEN {EmptyCode}
              ELSE prefixMatch(c, pageUrl)

\* loadSavedParserCode on a storage that answers
loadSavedParserCode(c, pageUrl) == loadSavedParserCodeOn(c, pageUrl, "none")

\* ------------------------------------------------------------------------
\* The crawl: click handlers of scrapeAllPagesBtn and stopScraperBtn
\* ------------------------------------------------------------------------

\* the listing pages a crawl is started on
CrawlUrls ==
    {ParsedUrl(HTTPS, HostA, PathSX, <<>>),
     ParsedUrl(HTTPS, HostB, PathRoot, <<>>)}

\* a cache holding one parser, generated for https://a/s
OneParserCache ==
    CacheSet(EmptyCache, StorageKey(ParsedUrl(HTTPS, HostA, PathS, <<>>)),
             "cOne", ParsedUrl(HTTPS, HostA, PathS, <<>>))

\* parseInt(maxPagesInput.value, 10) || 500
ReadMaxPages(value) == IF value = 0 THEN 500 ELSE value

\* what running the saved code on the text of page p may lead to
RawResultsOfPage(p) ==
    {Throws, ReturnsValue(Null), ReturnsValue(Product(p, 1))}
    \cup {ReturnsArray([i \in 1..k |-> Product(p, i)]) : k \in 0..MaxProducts}

NoStop == [pc |-> "none", pages |-> 0]

PageEntry(page, outcome, products) ==
    [page |-> page, outcome |-> outcome, products |-> products]

\* no crawl has been started
CrawlIdle ==
    /\ crawlPc = "idle"
    /\ crawlUrl = NoUrl
    /\ savedCode = EmptyCode
    /\ shouldStopScraper = FALSE
    /\ stopBtnEnabled = FALSE
    /\ maxPages = 0
    /\ pageNumber = 0
    /\ hasMorePages = FALSE
    /\ consecutiveFailures = 0
    /\ allProducts = <<>>
    /\ navAttempt = 0
    /\ wasStopped = FALSE
    /\ saveCalls = 0
    /\ savedContent = <<>>
    /\ crawlOutcome = "none"
    /\ pageLog = <<>>
    /\ navigated = {}
    /\ stopAt = NoStop
    /\ crawls = 0

\* navigateAndExtractMarkdown has not been called
NavIdle ==
    /\ navTarget = NoUrl
    /\ navPromise = "none"
    /\ navOutcome = "none"
    /\ resolved = FALSE
    /\ listening = FALSE
    /\ timeoutArmed = FALSE
    /\ updatePromise = "none"
    /\ getPromise = "none"
    /\ navPhase = "none"
    /\ probes = 0
    /\ injections = 0
    /\ extractions = 0
    /\ firstEvent = "none"
    /\ matchedUrl = NoUrl
    /\ extractionStarts = 0
    /\ settleCalls = 0
    /\ navCalls = 0

\* loadSavedParserCode has not been called
LookupIdle ==
    /\ lookupPc = "idle"
    /\ lookupUrl = NoUrl
    /\ storageFault = "none"
    /\ lookupResult = EmptyCode

\* no helper function has been called
CallIdle ==
    /\ callPc = "idle"
    /\ callArg = <<>>
    /\ callResults = <<>>

\* the popup has just been opened: its buttons are enabled and none of
\* their handlers has been started
PopupIdle ==
    /\ saveJsonBtnDisabled = FALSE
    /\ obtainProductsBtnDisabled = FALSE
    /\ scrapeAllPagesBtnDisabled = FALSE
    /\ handlers = <<>>

\* the popup opens on an empty storage
GenInit ==
    /\ cache = EmptyCache
    /\ GenIdle
    /\ CrawlIdle
    /\ NavIdle
    /\ LookupIdle
    /\ CallIdle
    /\ PopupIdle

\* the popup opens on a storage without a parser, or with one generated
\* by an earlier call of generateAndSaveParser
CrawlInit ==
    /\ cache \in {EmptyCache, OneParserCache}
    /\ GenIdle
    /\ CrawlIdle
    /\ NavIdle
    /\ LookupIdle
    /\ CallIdle
    /\ PopupIdle

\* click on scrapeAllPagesBtn: the flag is reset, the stop button shown,
\* the buttons disabled, and the url of the tab is asked for
ScrapeAllPagesClick ==
    /\ crawlPc = "idle"
    /\ crawls < MaxCrawls
    /\ crawls' = crawls + 1
    /\ \E url \in CrawlUrls : crawlUrl' = url
    /\ shouldStopScraper' = FALSE
    /\ stopBtnEnabled' = TRUE
    /\ crawlPc' = "loadParser"
    /\ savedCode' = EmptyCode
    /\ maxPages' = 0
    /\ pageNumber' = 0
    /\ hasMorePages' = FALSE
    /\ consecutiveFailures' = 0
    /\ allProducts' = <<>>
    /\ navAttempt' = 0
    /\ wasStopped' = FALSE
    /\ saveCalls' = 0
    /\ savedContent' = <<>>
    /\ crawlOutcome' = "running"
    /\ pageLog' = <<>>
    /\ navigated' = {}
    /\ stopAt' = NoStop
    /\ UNCHANGED <<genVars, navVars, lookupVars, callVars, popupVars>>

\* click on stopScraperBtn: the flag is set and the button disabled
StopScraperClick ==
    /\ stopBtnEnabled
    /\ shouldStopScraper' = TRUE
    /\ stopBtnEnabled' = FALSE
    /\ stopAt' = [pc |-> crawlPc, pages |-> Len(pageLog)]
    /\ UNCHANGED <<crawlPc, crawlUrl, savedCode, maxPages, pageNumber,
                   hasMorePages, consecutiveFailures, allProducts, navAttempt,
                   wasStopped, saveCalls, savedContent, crawlOutcome, pageLog,
                   navigated, crawls>>
    /\ UNCHANGED <<genVars, navVars, lookupVars, callVars, popupVars>>

\* the outer catch and the finally block: alert, buttons and flag reset
CrawlFailed ==
    /\ crawlOutcome' = "error"
    /\ shouldStopScraper' = FALSE
    /\ stopBtnEnabled' = FALSE
    /\ crawlPc' = "idle"

\* LoopHead without the checks of the cancellation flag
LoopHead_IgnoreStop(hasMore, page) ==
    IF hasMore /\ page <= maxPages
    THEN /\ crawlPc' = "navigate"
         /\ navAttempt' = 0
         /\ navigated' = navigated \cup {page}
         /\ UNCHANGED wasStopped
    ELSE /\ crawlPc' = "saving"
         /\ wasStopped' = shouldStopScraper
         /\ UNCHANGED <<navAttempt, navigated>>

\* LoopHead admitting one page more than the configured maximum
LoopHead_OnePageMore(hasMore, page) ==
    IF hasMore /\ page <= maxPages + 1 /\ ~shouldStopScraper
    THEN /\ crawlPc' = "navigate"
         /\ navAttempt' = 0
         /\ navigated' = navigated \cup {page}
         /\ UNCHANGED wasStopped
    ELSE /\ crawlPc' = "saving"
         /\ wasStopped' = shouldStopScraper
         /\ UNCHANGED <<navAttempt, navigated>>

\* the while condition, then either the navigation to the page is started
\* or the loop is left: wasStopped is read and saveFile is called
LoopHead(hasMore, page) ==
    IF hasMore /\ page <= maxPages /\ ~shouldStopScraper
    THEN /\ crawlPc' = "navigate"
         /\ navAttempt' = 0
         /\ navigated' = navigated \cup {page}
         /\ UNCHANGED wasStopped
    ELSE /\ crawlPc' = "saving"
         /\ wasStopped' = shouldStopScraper
         /\ UNCHANGED <<navAttempt, navigated>>

\* `break` out of the while loop
LeaveLoop ==
    /\ crawlPc' = "saving"
    /\ wasStopped' = shouldStopScraper
    /\ UNCHANGED <<navAttempt, navigated>>

\* CrawlParserLoaded going on to page 1 whether a code was found or not
CrawlParserLoaded_IgnoresMissingCode ==
    /\ crawlPc = "loadParser"
    /\ UNCHANGED <<genVars, navVars, lookupVars, callVars, popupVars>>
    /\ UNCHANGED <<crawlUrl, consecutiveFailures, navAttempt, wasStopped,
                   saveCalls, savedContent, pageLog, navigated, stopAt,
                   crawls>>
    /\ \E code \in loadSavedParserCode(cache, crawlUrl) :
          /\ savedCode' = code
          /\ \E value \in 1..MaxPagesBound :
                maxPages' = ReadMaxPages(value)
          /\ allProducts' = <<>>
          /\ pageNumber' = 1
          /\ hasMorePages' = TRUE
          /\ crawlPc' = "page1"
          /\ UNCHANGED <<shouldStopScraper, stopBtnEnabled, crawlOutcome>>

\* loadSavedParserCode settles: without code the handler fails, otherwise
\* the maximum is read and page 1 is started
CrawlParserLoaded ==
    /\ crawlPc = "loadParser"
    /\ UNCHANGED <<genVars, navVars, lookupVars, callVars, popupVars>>
    /\ UNCHANGED <<crawlUrl, consecutiveFailures, navAttempt, wasStopped,
                   saveCalls, savedContent, pageLog, navigated, stopAt,
                   crawls>>
    /\ \E code \in loadSavedParserCode(cache, crawlUrl) :
          /\ savedCode' = code
          /\ IF code = EmptyCode
             THEN /\ CrawlFailed
                  /\ UNCHANGED <<maxPages, allProducts, pageNumber,
                                 hasMorePages>>
             ELSE /\ \E value \in 1..MaxPagesBound :
                        maxPages' = ReadMaxPages(value)
                  /\ allProducts' = <<>>
                  /\ pageNumber' = 1
                  /\ hasMorePages' = TRUE
                  /\ crawlPc' = "page1"
                  /\ UNCHANGED <<shouldStopScraper, stopBtnEnabled,
                                 crawlOutcome>>

\* page 1: the text of the page is taken from the note field or extracted
\* (`extracted` is false when that extraction fails), the saved code is run
\* on it and its result evaluated
CrawlPage1 ==
    /\ crawlPc = "page1"
    /\ UNCHANGED <<genVars, navVars, lookupVars, callVars, popupVars>>
    /\ UNCHANGED <<crawlUrl, savedCode, maxPages, consecutiveFailures,
                   saveCalls, savedContent, stopAt, crawls>>
    /\ \E extracted \in BOOLEAN, raw \in RawResultsOfPage(1) :
          LET run == executeParserCode(raw)
          IN  IF ~extracted \/ run.threw
              THEN \* `throw pageError`
                   /\ CrawlFailed
                   /\ pageLog' = Append(pageLog, PageEntry(1, "error", <<>>))
                   /\ UNCHANGED <<pageNumber, hasMorePages, allProducts,
                                  navAttempt, wasStopped, navigated>>
              ELSE IF Len(run.products) = 0
                   THEN /\ hasMorePages' = FALSE
                        /\ UNCHANGED pageNumber
                        /\ pageLog' = Append(pageLog,
                                             PageEntry(1, "empty", <<>>))
                        /\ LoopHead(FALSE, pageNumber)
                        /\ UNCHANGED <<allProducts, shouldStopScraper,
                                       stopBtnEnabled, crawlOutcome>>
                   ELSE /\ allProducts' = allProducts \o run.products
                        /\ UNCHANGED hasMorePages
                        /\ pageNumber' = pageNumber + 1
                        /\ pageLog' = Append(pageLog,
                                 PageEntry(1, "products", run.products))
                        /\ LoopHead(hasMorePages, pageNumber + 1)
                        /\ UNCHANGED <<shouldStopScraper, stopBtnEnabled,
                                       crawlOutcome>>

\* PageError losing the products accumulated before the error
PageError_DropsProducts ==
    /\ consecutiveFailures' = consecutiveFailures + 1
    /\ pageLog' = Append(pageLog, PageEntry(pageNumber, "error", <<>>))
    /\ allProducts' = <<>>
    /\ IF consecutiveFailures + 1 >= maxConsecutiveFailures
       THEN /\ hasMorePages' = FALSE
            /\ LeaveLoop
            /\ UNCHANGED pageNumber
       ELSE /\ pageNumber' = pageNumber + 1
            /\ crawlPc' = "delay"
            /\ UNCHANGED <<hasMorePages, navAttempt, navigated, wasStopped>>

\* PageError going round the loop again without advancing the page number
PageError_SamePage ==
    /\ consecutiveFailures' = consecutiveFailures + 1
    /\ pageLog' = Append(pageLog, PageEntry(pageNumber, "error", <<>>))
    /\ UNCHANGED allProducts
    /\ IF consecutiveFailures + 1 >= maxConsecutiveFailures
       THEN /\ hasMorePages' = FALSE
            /\ LeaveLoop
            /\ UNCHANGED pageNumber
       ELSE /\ UNCHANGED pageNumber
            /\ crawlPc' = "delay"
            /\ UNCHANGED <<hasMorePages, navAttempt, navigated, wasStopped>>

\* the catch block of the page loop
PageError ==
    /\ consecutiveFailures' = consecutiveFailures + 1
    /\ pageLog' = Append(pageLog, PageEntry(pageNumber, "error", <<>>))
    /\ UNCHANGED allProducts
    /\ IF consecutiveFailures + 1 >= maxConsecutiveFailures
       THEN /\ hasMorePages' = FALSE
            /\ LeaveLoop
            /\ UNCHANGED pageNumber
       ELSE /\ pageNumber' = pageNumber + 1
            /\ crawlPc' = "delay"
            /\ UNCHANGED <<hasMorePages, navAttempt, navigated, wasStopped>>

\* what the page loop does with a settled navigation attempt: the text is
\* handed to the code, an empty text fails the page, and a rejection is
\* followed by the next attempt or, after the last one, fails the page
AttemptSettled(result) ==
    /\ crawlPc = "navigate"
    /\ UNCHANGED <<crawlUrl, savedCode, shouldStopScraper, stopBtnEnabled,
                   maxPages, saveCalls, savedContent, crawlOutcome, stopAt,
                   crawls>>
    /\ CASE result = "markdown" ->
               /\ crawlPc' = "execute"
               /\ UNCHANGED <<pageNumber, hasMorePages,
                              consecutiveFailures, allProducts, navAttempt,
                              wasStopped, pageLog, navigated>>
         [] result = "empty" -> PageError
         [] result = "rejected" ->
               IF navAttempt < MaxNavAttempts - 1
               THEN /\ crawlPc' = "navRetryDelay"
                    /\ UNCHANGED <<pageNumber, hasMorePages,
                                   consecutiveFailures, allProducts,
                                   navAttempt, wasStopped, pageLog,
                                   navigated>>
               ELSE PageError

\* navigateAndExtractMarkdown settles: with the text of the page, with an
\* empty text, or rejected (timeout, navigation or extraction error)
CrawlNavigated ==
    /\ UNCHANGED <<genVars, navVars, lookupVars, callVars, popupVars>>
    /\ \E result \in {"markdown", "empty", "rejected"} :
          AttemptSettled(result)

\* the 2 s pause after a failed attempt is over: the next attempt starts
CrawlNavRetry ==
    /\ crawlPc = "navRetryDelay"
    /\ navAttempt' = navAttempt + 1
    /\ crawlPc' = "navigate"
    /\ UNCHANGED <<genVars, navVars, lookupVars, callVars, popupVars>>
    /\ UNCHANGED <<crawlUrl, savedCode, shouldStopScraper, stopBtnEnabled,
                   maxPages, pageNumber, hasMorePages, consecutiveFailures,
                   allProducts, wasStopped, saveCalls, savedContent,
                   crawlOutcome, pageLog, navigated, stopAt, crawls>>

\* EmptyPage resetting the counter as a page with products does
EmptyPage_ResetsCounter ==
    /\ consecutiveFailures' = 0
    /\ pageLog' = Append(pageLog, PageEntry(pageNumber, "empty", <<>>))
    /\ UNCHANGED allProducts
    /\ pageNumber' = pageNumber + 1
    /\ crawlPc' = "delay"
    /\ UNCHANGED <<hasMorePages, navAttempt, navigated, wasStopped>>

\* EmptyPage comparing the counter with the threshold by > instead of >=
EmptyPage_OffByOne ==
    /\ consecutiveFailures' = consecutiveFailures + 1
    /\ pageLog' = Append(pageLog, PageEntry(pageNumber, "empty", <<>>))
    /\ UNCHANGED allProducts
    /\ IF consecutiveFailures + 1 > maxConsecutiveFailures
       THEN /\ hasMorePages' = FALSE
            /\ LeaveLoop
            /\ UNCHANGED pageNumber
       ELSE /\ pageNumber' = pageNumber + 1
            /\ crawlPc' = "delay"
            /\ UNCHANGED <<hasMorePages, navAttempt, navigated, wasStopped>>

\* EmptyPage ending the crawl at the first empty page, as page 1 does
EmptyPage_Stops ==
    /\ consecutiveFailures' = consecutiveFailures + 1
    /\ pageLog' = Append(pageLog, PageEntry(pageNumber, "empty", <<>>))
    /\ UNCHANGED allProducts
    /\ hasMorePages' = FALSE
    /\ LeaveLoop
    /\ UNCHANGED pageNumber

\* a page n > 1 without products: the counter is incremented, the loop is
\* left at the threshold, otherwise the next page follows after 1 s
EmptyPage ==
    /\ consecutiveFailures' = consecutiveFailures + 1
    /\ pageLog' = Append(pageLog, PageEntry(pageNumber, "empty", <<>>))
    /\ UNCHANGED allProducts
    /\ IF consecutiveFailures + 1 >= maxConsecutiveFailures
       THEN /\ hasMorePages' = FALSE
            /\ LeaveLoop
            /\ UNCHANGED pageNumber
       ELSE /\ pageNumber' = pageNumber + 1
            /\ crawlPc' = "delay"
            /\ UNCHANGED <<hasMorePages, navAttempt, navigated, wasStopped>>

\* ProductsFound discarding the products of the page when the flag is set
ProductsFound_DropsWhenStopped(products) ==
    /\ consecutiveFailures' = 0
    /\ allProducts' = IF shouldStopScraper THEN allProducts
                                           ELSE allProducts \o products
    /\ pageLog' = Append(pageLog, PageEntry(pageNumber, "products", products))
    /\ pageNumber' = pageNumber + 1
    /\ crawlPc' = "delay"
    /\ UNCHANGED <<hasMorePages, navAttempt, navigated, wasStopped>>

\* ProductsFound putting the products of the page in front of the list
ProductsFound_Prepends(products) ==
    /\ consecutiveFailures' = 0
    /\ allProducts' = products \o allProducts
    /\ pageLog' = Append(pageLog, PageEntry(pageNumber, "products", products))
    /\ pageNumber' = pageNumber + 1
    /\ crawlPc' = "delay"
    /\ UNCHANGED <<hasMorePages, navAttempt, navigated, wasStopped>>

\* a page n > 1 with products: the counter is reset, the products are
\* appended and the next page follows after 1.5 s
ProductsFound(products) ==
    /\ consecutiveFailures' = 0
    /\ allProducts' = allProducts \o products
    /\ pageLog' = Append(pageLog, PageEntry(pageNumber, "products", products))
    /\ pageNumber' = pageNumber + 1
    /\ crawlPc' = "delay"
    /\ UNCHANGED <<hasMorePages, navAttempt, navigated, wasStopped>>

\* executeParserCode settles for a page n > 1 and its result is evaluated
CrawlExecuted ==
    /\ crawlPc = "execute"
    /\ UNCHANGED <<genVars, navVars, lookupVars, callVars, popupVars>>
    /\ UNCHANGED <<crawlUrl, savedCode, shouldStopScraper, stopBtnEnabled,
                   maxPages, saveCalls, savedContent, crawlOutcome, stopAt,
                   crawls>>
    /\ \E raw \in RawResultsOfPage(pageNumber) :
          LET run == executeParserCode(raw)
          IN  IF run.threw
              THEN PageError
              ELSE IF Len(run.products) = 0
                   THEN EmptyPage
                   ELSE ProductsFound(run.products)

\* the pause between two pages is over: the flag is checked again and the
\* while condition evaluated
CrawlDelayOver ==
    /\ crawlPc = "delay"
    /\ LoopHead(hasMorePages, pageNumber)
    /\ UNCHANGED <<genVars, navVars, lookupVars, callVars, popupVars>>
    /\ UNCHANGED <<crawlUrl, savedCode, shouldStopScraper, stopBtnEnabled,
                   maxPages, pageNumber, hasMorePages, consecutiveFailures,
                   allProducts, saveCalls, savedContent, crawlOutcome,
                   pageLog, stopAt, crawls>>

\* CrawlSaved whose finally block leaves the flag as it is
CrawlSaved_KeepsFlag ==
    /\ crawlPc = "saving"
    /\ saveCalls' = saveCalls + 1
    /\ savedContent' = allProducts
    /\ crawlOutcome' = IF wasStopped THEN "Stopped" ELSE "Completed"
    /\ stopBtnEnabled' = FALSE
    /\ crawlPc' = "idle"
    /\ UNCHANGED <<genVars, navVars, lookupVars, callVars, popupVars>>
    /\ UNCHANGED <<crawlUrl, savedCode, maxPages, pageNumber, hasMorePages,
                   consecutiveFailures, allProducts, navAttempt, wasStopped,
                   pageLog, navigated, stopAt, crawls, shouldStopScraper>>

\* saveFile settles: the button shows the status, then the finally block
\* hides the stop button and resets the flag
CrawlSaved ==
    /\ crawlPc = "saving"
    /\ saveCalls' = saveCalls + 1
    /\ savedContent' = allProducts
    /\ crawlOutcome' = IF wasStopped THEN "Stopped" ELSE "Completed"
    /\ shouldStopScraper' = FALSE
    /\ stopBtnEnabled' = FALSE
    /\ crawlPc' = "idle"
    /\ UNCHANGED <<genVars, navVars, lookupVars, callVars, popupVars>>
    /\ UNCHANGED <<crawlUrl, savedCode, maxPages, pageNumber, hasMorePages,
                   consecutiveFailures, allProducts, navAttempt, wasStopped,
                   pageLog, navigated, stopAt, crawls>>

CrawlNext ==
    \/ ScrapeAllPagesClick
    \/ StopScraperClick
    \/ CrawlParserLoaded
    \/ CrawlPage1
    \/ CrawlNavigated
    \/ CrawlNavRetry
    \/ CrawlExecuted
    \/ CrawlDelayOver
    \/ CrawlSaved
\* ------------------------------------------------------------------------
\* Comparison of urls (normalizeUrlForComparison and the match test of
\* onUpdatedListener).  A query string is "?k=v&k=v..." with keys and
\* values of one character.
\* ------------------------------------------------------------------------

\* urlObj.searchParams.entries()
searchParams(search) ==
    [i \in 1..(Len(search) \div 4) |->
        [key |-> search[4 * i - 2], value |-> search[4 * i]]]

\* the order localeCompare puts the keys of the model in
KeyOrder == <<"p", "s">>

KeyRank(k) == CHOOSE i \in 1..Len(KeyOrder) : KeyOrder[i] = k

\* x put into the sorted list before the first entry that is not smaller
RECURSIVE InsertParam(_, _)
InsertParam(x, sorted) ==
    IF sorted = <<>> THEN <<x>>
    ELSE IF KeyRank(sorted[1].key) >= KeyRank(x.key)
         THEN <<x>> \o sorted
         ELSE <<sorted[1]>> \o InsertParam(x, Tail(sorted))

\* entries.sort((a, b) => a[0].localeCompare(b[0])), a stable sort
RECURSIVE SortParams(_)
SortParams(params) ==
    IF params = <<>> THEN <<>>
    ELSE InsertParam(params[1], SortParams(Tail(params)))

RECURSIVE JoinParams(_)
JoinParams(params) ==
    <<params[1].key, "=", params[1].value>>
    \o (IF Len(params) > 1 THEN <<"&">> \o JoinParams(Tail(params)) ELSE <<>>)

\* the query string that searchParams.append builds
SearchOf(params) ==
    IF params = <<>> THEN <<>> ELSE <<"?">> \o JoinParams(params)

normalizeUrlForComparison(url) ==
    IF IsParseable(url)
    THEN StripTrailingSlash(
             url.protocol \o <<"/", "/">> \o url.hostname \o url.pathname
             \o SearchOf(SortParams(searchParams(url.search))))
    ELSE StripTrailingSlash(url.raw)

\* s.split('?')[0]
BeforeQuery(s) ==
    LET marks == {i \in 1..Len(s) : s[i] = "?"}
    IN  IF marks = {} THEN s
        ELSE SubSeq(s, 1, (CHOOSE i \in marks : \A j \in marks : i <= j) - 1)

\* s.includes(part)
Includes(s, part) ==
    \E i \in 1..(Len(s) - Len(part) + 1) :
        SubSeq(s, i, i + Len(part) - 1) = part

\* the test onUpdatedListener applies to the url of a 'complete' event
UrlsMatch(currentUrl, url) ==
    \/ normalizeUrlForComparison(currentUrl) = normalizeUrlForComparison(url)
    \/ Includes(Href(currentUrl), BeforeQuery(Href(url)))

Query(chars) == <<"?">> \o chars

\* page 3 of the listing https://a/s/x?s=1, as buildPaginationUrl makes it
TargetPage3 ==
    ParsedUrl(HTTPS, HostA, PathSX, Query(<<"s", "=", "1", "&", "p", "=", "3">>))

\* the same page with the parameters in the other order
TargetPage3Sorted ==
    ParsedUrl(HTTPS, HostA, PathSX, Query(<<"p", "=", "3", "&", "s", "=", "1">>))

\* page 2 of the same listing, the page loaded before page 3
PreviousPage2 ==
    ParsedUrl(HTTPS, HostA, PathSX, Query(<<"s", "=", "1", "&", "p", "=", "2">>))

\* page 2 of the listing https://b/
TargetRootPage2 == ParsedUrl(HTTPS, HostB, PathRoot, Query(<<"p", "=", "2">>))

\* the urls navigateAndExtractMarkdown is called with
NavTargets == {TargetPage3, TargetRootPage2}

\* the urls a tab may report in an event or to tabs.get ('' when it has none)
ReportedUrls ==
    {TargetPage3, TargetPage3Sorted, PreviousPage2, TargetRootPage2,
     ParsedUrl(HTTPS, HostA, PathS, <<>>),
     ParsedUrl(HTTPS, HostB, PathRoot, <<>>),
     ParsedUrl(HTTP, HostA, PathSX, Query(<<"s", "=", "1", "&", "p", "=", "3">>)),
     NoUrl}

\* ------------------------------------------------------------------------
\* navigateAndExtractMarkdown: one call at a time; the next call is made
\* when the callbacks of the previous one have all run
\* ------------------------------------------------------------------------

\* for (let attempt = 0; attempt < 5; attempt++): pings per attempt
MaxProbes == 5

\* for (let attempt = 0; attempt < 3; attempt++): extractions per attempt
MaxExtractions == 3

OwnTab == "own"
OtherTab == "other"

\* resolve(...) or reject(...): only the first call settles the promise
Settle(state, outcome) ==
    /\ settleCalls' = settleCalls + 1
    /\ IF navPromise = "pending"
       THEN navPromise' = state /\ navOutcome' = outcome
       ELSE UNCHANGED <<navPromise, navOutcome>>

NotSettled == UNCHANGED <<navPromise, navOutcome, settleCalls>>

\* the first of match, timeout and navigation error is remembered
NoteEvent(event) ==
    firstEvent' = IF firstEvent = "none" THEN event ELSE firstEvent

\* no callback of the last call is pending
NavQuiescent ==
    /\ navPromise # "pending"
    /\ ~listening
    /\ ~timeoutArmed
    /\ updatePromise # "pending"
    /\ getPromise # "pending"
    /\ navPhase \in {"none", "done"}

\* the call: the timer is set, the listener added, tabs.update called
NavCall ==
    /\ NavQuiescent
    /\ navCalls < MaxNavCalls
    /\ navCalls' = navCalls + 1
    /\ \E url \in NavTargets : navTarget' = url
    /\ navPromise' = "pending"
    /\ navOutcome' = "none"
    /\ resolved' = FALSE
    /\ timeoutArmed' = TRUE
    /\ listening' = TRUE
    /\ updatePromise' = "pending"
    /\ getPromise' = "none"
    /\ navPhase' = "none"
    /\ probes' = 0
    /\ injections' = 0
    /\ extractions' = 0
    /\ firstEvent' = "none"
    /\ matchedUrl' = NoUrl
    /\ extractionStarts' = 0
    /\ settleCalls' = 0
    /\ UNCHANGED <<genVars, crawlVars, lookupVars, callVars, popupVars>>

\* NavTimeout whose callback does nothing
NavTimeout_Silent ==
    /\ timeoutArmed
    /\ timeoutArmed' = FALSE
    /\ NotSettled
    /\ UNCHANGED <<resolved, listening, firstEvent>>
    /\ UNCHANGED <<navTarget, updatePromise, getPromise, navPhase, probes,
                   injections, extractions, matchedUrl, extractionStarts,
                   navCalls>>
    /\ UNCHANGED <<genVars, crawlVars, lookupVars, callVars, popupVars>>

\* the 30 s timer fires
NavTimeout ==
    /\ timeoutArmed
    /\ timeoutArmed' = FALSE
    /\ IF ~resolved
       THEN /\ resolved' = TRUE
            /\ listening' = FALSE
            /\ Settle("rejected", "timeout")
            /\ NoteEvent("timeout")
       ELSE /\ NotSettled
            /\ UNCHANGED <<resolved, listening, firstEvent>>
    /\ UNCHANGED <<navTarget, updatePromise, getPromise, navPhase, probes,
                   injections, extractions, matchedUrl, extractionStarts,
                   navCalls>>
    /\ UNCHANGED <<genVars, crawlVars, lookupVars, callVars, popupVars>>

\* onUpdatedListener(updatedTabId, changeInfo, updatedTab): events of other
\* tabs, 'loading' events and events without a tab are ignored; a
\* 'complete' event whose url passes the test removes the listener and,
\* unless the call is resolved already, takes the match: the timer is
\* cleared and the callback that stabilises and extracts is set up
onUpdatedListener(updatedTabId, status, hasTab, currentUrl) ==
    IF /\ updatedTabId = OwnTab
       /\ status = "complete"
       /\ hasTab
       /\ UrlsMatch(currentUrl, navTarget)
    THEN /\ listening' = FALSE
         /\ IF resolved
            THEN UNCHANGED <<resolved, timeoutArmed, navPhase, firstEvent,
                             matchedUrl, extractionStarts>>
            ELSE /\ resolved' = TRUE
                 /\ timeoutArmed' = FALSE
                 /\ navPhase' = "settle"
                 /\ NoteEvent("match")
                 /\ matchedUrl' = currentUrl
                 /\ extractionStarts' = extractionStarts + 1
    ELSE UNCHANGED <<listening, resolved, timeoutArmed, navPhase, firstEvent,
                     matchedUrl, extractionStarts>>

\* the browser reports a change of some tab to the registered listener
NavTabUpdated ==
    /\ listening
    /\ \E updatedTabId \in {OwnTab, OtherTab},
          status \in {"loading", "complete"},
          hasTab \in BOOLEAN,
          currentUrl \in ReportedUrls :
          onUpdatedListener(updatedTabId, status, hasTab, currentUrl)
    /\ NotSettled
    /\ UNCHANGED <<navTarget, updatePromise, getPromise, probes, injections,
                   extractions, navCalls>>
    /\ UNCHANGED <<genVars, crawlVars, lookupVars, callVars, popupVars>>

\* browser.tabs.update settles: fulfilled, tabs.get is called; rejected,
\* the listener is removed, the timer cleared and the call rejected
NavUpdateSettled ==
    /\ updatePromise = "pending"
    /\ \E fulfilled \in BOOLEAN :
          IF fulfilled
          THEN /\ updatePromise' = "fulfilled"
               /\ getPromise' = "pending"
               /\ NotSettled
               /\ UNCHANGED <<listening, timeoutArmed, firstEvent>>
          ELSE /\ updatePromise' = "rejected"
               /\ listening' = FALSE
               /\ timeoutArmed' = FALSE
               /\ Settle("rejected", "navigationError")
               /\ NoteEvent("navigationError")
               /\ UNCHANGED getPromise
    /\ UNCHANGED <<navTarget, resolved, navPhase, probes, injections,
                   extractions, matchedUrl, extractionStarts, navCalls>>
    /\ UNCHANGED <<genVars, crawlVars, lookupVars, callVars, popupVars>>

\* browser.tabs.get settles: a tab that is complete on a url equal, after
\* normalisation, to the target is handed to onUpdatedListener
NavTabGot ==
    /\ getPromise = "pending"
    /\ getPromise' = "settled"
    /\ \E fulfilled \in BOOLEAN,
          status \in {"loading", "complete"},
          currentUrl \in ReportedUrls :
          IF /\ fulfilled
             /\ status = "complete"
             /\ normalizeUrlForComparison(currentUrl)
                   = normalizeUrlForComparison(navTarget)
          THEN onUpdatedListener(OwnTab, "complete", TRUE, currentUrl)
          ELSE UNCHANGED <<listening, resolved, timeoutArmed, navPhase,
                           firstEvent, matchedUrl, extractionStarts>>
    /\ NotSettled
    /\ UNCHANGED <<navTarget, updatePromise, probes, injections, extractions,
                   navCalls>>
    /\ UNCHANGED <<genVars, crawlVars, lookupVars, callVars, popupVars>>

\* the 3 s given to the page are over: the first ping is due
NavSettleOver ==
    /\ navPhase = "settle"
    /\ navPhase' = "probe"
    /\ NotSettled
    /\ UNCHANGED <<navTarget, resolved, listening, timeoutArmed,
                   updatePromise, getPromise, probes, injections, extractions,
                   firstEvent, matchedUrl, extractionStarts, navCalls>>
    /\ UNCHANGED <<genVars, crawlVars, lookupVars, callVars, popupVars>>

\* a ping settles: answered, the content script is ready; failed, the
\* script is injected (1.5 s are waited if that succeeds) and the next ping
\* follows, up to MaxProbes pings; then the extraction begins in any case
NavProbed ==
    /\ navPhase = "probe"
    /\ probes' = probes + 1
    /\ \E answered \in BOOLEAN :
          IF answered
          THEN /\ navPhase' = "extract"
               /\ UNCHANGED injections
          ELSE /\ injections' = injections + 1
               /\ navPhase' = IF probes + 1 < MaxProbes THEN "probe"
                                                        ELSE "extract"
    /\ NotSettled
    /\ UNCHANGED <<navTarget, resolved, listening, timeoutArmed,
                   updatePromise, getPromise, extractions, firstEvent,
                   matchedUrl, extractionStarts, navCalls>>
    /\ UNCHANGED <<genVars, crawlVars, lookupVars, callVars, popupVars>>

\* NavExtracted leaving the call unsettled when no extraction gave content
NavExtracted_NeverRejects ==
    /\ navPhase = "extract"
    /\ extractions' = extractions + 1
    /\ \E response \in {"content", "noContent", "throws"},
          converted \in {"markdown", "empty", "noVariables", "throws"} :
          IF response = "content"
          THEN /\ navPhase' = "done"
               /\ CASE converted = "markdown" ->
                          Settle("resolved", "markdown")
                    [] converted = "empty" ->
                          Settle("resolved", "empty")
                    [] converted = "noVariables" ->
                          Settle("rejected", "conversionFailed")
                    [] converted = "throws" ->
                          Settle("rejected", "exception")
          ELSE IF extractions + 1 < MaxExtractions
               THEN /\ UNCHANGED navPhase
                    /\ NotSettled
               ELSE /\ navPhase' = "done"
                    /\ NotSettled
    /\ UNCHANGED <<navTarget, resolved, listening, timeoutArmed,
                   updatePromise, getPromise, probes, injections, firstEvent,
                   matchedUrl, extractionStarts, navCalls>>
    /\ UNCHANGED <<genVars, crawlVars, lookupVars, callVars, popupVars>>

\* extractPageContent settles: with content, the content is converted and
\* the call resolved with the text (which may be empty) or rejected when
\* the conversion gives nothing or throws; without content or with an
\* error the extraction is repeated, up to MaxExtractions times, and then
\* the call is rejected
NavExtracted ==
    /\ navPhase = "extract"
    /\ extractions' = extractions + 1
    /\ \E response \in {"content", "noContent", "throws"},
          converted \in {"markdown", "empty", "noVariables", "throws"} :
          IF response = "content"
          THEN /\ navPhase' = "done"
               /\ CASE converted = "markdown" ->
                          Settle("resolved", "markdown")
                    [] converted = "empty" ->
                          Settle("resolved", "empty")
                    [] converted = "noVariables" ->
                          Settle("rejected", "conversionFailed")
                    [] converted = "throws" ->
                          Settle("rejected", "exception")
          ELSE IF extractions + 1 < MaxExtractions
               THEN /\ UNCHANGED navPhase
                    /\ NotSettled
               ELSE /\ navPhase' = "done"
                    /\ Settle("rejected", "noContent")
    /\ UNCHANGED <<navTarget, resolved, listening, timeoutArmed,
                   updatePromise, getPromise, probes, injections, firstEvent,
                   matchedUrl, extractionStarts, navCalls>>
    /\ UNCHANGED <<genVars, crawlVars, lookupVars, callVars, popupVars>>

NavNext ==
    \/ NavCall
    \/ NavTimeout
    \/ NavTabUpdated
    \/ NavUpdateSettled
    \/ NavTabGot
    \/ NavSettleOver
    \/ NavProbed
    \/ NavExtracted

\* the popup before the first navigation of a crawl
NavInit ==
    /\ cache = EmptyCache
    /\ GenIdle
    /\ CrawlIdle
    /\ NavIdle
    /\ LookupIdle
    /\ CallIdle
    /\ PopupIdle

\* ------------------------------------------------------------------------
\* loadSavedParserCode called on a storage that holds up to MaxEntries
\* parsers.  Entries are as generateAndSaveParser writes them (under the
\* key of their url, with a code that is not empty); two of them may be
\* related by prefix, which is what is left when the removal of related
\* entries failed and the save went on (parser-generator.ts, line 355).
\* ------------------------------------------------------------------------

\* the query string ?s=1&p=3
LongQuery == Query(<<"s", "=", "1", "&", "p", "=", "3">>)

\* the urls parsers are stored for
StoredUrls ==
    {ParsedUrl(HTTPS, HostA, PathS, <<>>),
     ParsedUrl(HTTPS, HostA, PathS, LongQuery),
     ParsedUrl(HTTPS, HostA, PathSX, <<>>),
     ParsedUrl(HTTPS, HostA, PathSh, <<>>),
     ParsedUrl(HTTPS, HostWwwA, PathSSlash, <<>>),
     ParsedUrl(HTTP, HostA, PathSX, <<>>),
     ParsedUrl(HTTPS, HostA, PathSUnderscoreX, <<>>),
     ParsedUrl(HTTPS, HostB, PathRoot, <<>>)}

\* the urls a parser is looked up for
LookupUrls ==
    {ParsedUrl(HTTPS, HostA, PathSXY, <<>>),
     ParsedUrl(HTTPS, HostA, PathSX, <<>>),
     ParsedUrl(HTTPS, HostA, PathSh, <<>>),
     ParsedUrl(HTTPS, HostA, PathS, <<>>),
     ParsedUrl(HTTPS, HostB, PathS, <<>>)}

StoredEntries == {[url |-> u, code |-> c] : u \in StoredUrls,
                                             c \in {"cOne", "cEmpty"}}

\* the storage holding the given entries, each under the key of its url
CacheOf(entries) ==
    [k \in {StorageKey(e.url) : e \in entries} |->
        LET e == CHOOSE e \in entries : StorageKey(e.url) = k
        IN  [code |-> e.code, url |-> e.url]]

LookupCaches ==
    {CacheOf(entries) : entries \in
        {S \in SUBSET StoredEntries :
            /\ Cardinality(S) <= MaxEntries
            /\ \A e1, e2 \in S :
                  e1 # e2 => StorageKey(e1.url) # StorageKey(e2.url)}}

\* which storage.local.get of loadSavedParserCode rejects
StorageFaults == {"none", "exactGet", "listGet"}

LookupInit ==
    /\ cache \in LookupCaches
    /\ GenIdle
    /\ CrawlIdle
    /\ NavIdle
    /\ LookupIdle
    /\ CallIdle
    /\ PopupIdle

\* a call of loadSavedParserCode, from its start to its return
Lookup ==
    /\ lookupPc = "idle"
    /\ \E pageUrl \in LookupUrls, fault \in StorageFaults :
          /\ lookupUrl' = pageUrl
          /\ storageFault' = fault
          /\ lookupResult' \in loadSavedParserCodeOn(cache, pageUrl, fault)
    /\ lookupPc' = "returned"
    /\ UNCHANGED <<genVars, crawlVars, navVars, callVars, popupVars>>

LookupNext == Lookup

\* ------------------------------------------------------------------------
\* new URL(string), for the strings of the model: they begin with https:
\* or http:, or hold no scheme at all, and are made of letters, `/', `?',
\* `*' and spaces
\* ------------------------------------------------------------------------

\* the string without its leading and trailing spaces
RECURSIVE TrimSpaces(_)
TrimSpaces(s) ==
    IF s = <<>> THEN s
    ELSE IF s[1] = " " THEN TrimSpaces(Tail(s))
    ELSE IF s[Len(s)] = " " THEN TrimSpaces(SubSeq(s, 1, Len(s) - 1))
    ELSE s

\* the string without its leading slashes
RECURSIVE SkipSlashes(_)
SkipSlashes(s) ==
    IF s # <<>> /\ s[1] = "/" THEN SkipSlashes(Tail(s)) ELSE s

\* the position, from i on, of the first character of s that is in stops;
\* Len(s) + 1 if there is none
RECURSIVE FirstOf(_, _, _)
FirstOf(s, i, stops) ==
    IF i > Len(s) \/ s[i] \in stops THEN i ELSE FirstOf(s, i + 1, stops)

\* the percent-encoding of the spaces of a path or of a query
RECURSIVE EncodeSpaces(_)
EncodeSpaces(s) ==
    IF s = <<>> THEN <<>>
    ELSE (IF s[1] = " " THEN <<"%", "2", "0">> ELSE <<s[1]>>)
         \o EncodeSpaces(Tail(s))

SchemeOf(s) ==
    IF StartsWith(s, HTTPS) THEN HTTPS
    ELSE IF StartsWith(s, HTTP) THEN HTTP
    ELSE <<>>

\* new URL(chars): the parsed url, or the string itself when the
\* constructor throws (no scheme, no host, or a space in the host)
ParseUrl(chars) ==
    LET s == TrimSpaces(chars)
        scheme == SchemeOf(s)
        rest == SkipSlashes(SubSeq(s, Len(scheme) + 1, Len(s)))
        hostEnd == FirstOf(rest, 1, {"/", "?"})
        host == SubSeq(rest, 1, hostEnd - 1)
        pathEnd == FirstOf(rest, hostEnd, {"?"})
        path == SubSeq(rest, hostEnd, pathEnd - 1)
        query == SubSeq(rest, pathEnd, Len(rest))
    IN  IF scheme = <<>> \/ host = <<>> \/ \E i \in 1..Len(host) : host[i] = " "
        THEN RawUrl(chars)
        ELSE ParsedUrl(scheme, host,
                       IF path = <<>> THEN <<"/">> ELSE EncodeSpaces(path),
                       IF Len(query) <= 1 THEN <<>> ELSE EncodeSpaces(query))

\* ------------------------------------------------------------------------
\* normalizeUrlForStorage applied to a string, and to its own result
\* ------------------------------------------------------------------------

\* length of the part of an input string that follows its prefix
MaxTailLen == 3

\* all strings over the alphabet of at most n characters
RECURSIVE StringsUpTo(_, _)
StringsUpTo(alphabet, n) ==
    IF n = 0 THEN {<<>>}
    ELSE LET shorter == StringsUpTo(alphabet, n - 1)
         IN  shorter \cup {Append(t, c) : t \in shorter, c \in alphabet}

UrlPrefixes ==
    {<<>>,
     HTTPS \o <<"/", "/">>,
     HTTP \o <<"/", "/">>,
     HTTPS \o <<"/", "/">> \o <<"w", "w", "w", ".">>}

TailChars == {"a", "/", " ", "?", "*"}

NormalizeInputs ==
    {p \o t : p \in UrlPrefixes, t \in StringsUpTo(TailChars, MaxTailLen)}

NormalizeInit ==
    /\ cache = EmptyCache
    /\ GenIdle
    /\ CrawlIdle
    /\ NavIdle
    /\ LookupIdle
    /\ callPc = "called"
    /\ callArg \in NormalizeInputs
    /\ callResults = <<>>
    /\ PopupIdle

\* normalizeUrlForStorage(url)
NormalizeUrl ==
    /\ callPc = "called"
    /\ callResults' = <<normalizeUrlForStorage(ParseUrl(callArg))>>
    /\ callPc' = "normalized"
    /\ UNCHANGED <<genVars, crawlVars, navVars, lookupVars, callArg, popupVars>>

\* normalizeUrlForStorage applied to the key it returned
NormalizeKey ==
    /\ callPc = "normalized"
    /\ callResults' =
          Append(callResults, normalizeUrlForStorage(ParseUrl(callResults[1])))
    /\ callPc' = "renormalized"
    /\ UNCHANGED <<genVars, crawlVars, navVars, lookupVars, callArg, popupVars>>

NormalizeNext == NormalizeUrl \/ NormalizeKey

\* ------------------------------------------------------------------------
\* validateExtractedProducts applied to arrays of at most MaxArrayLen
\* elements and to values that are not arrays
\* ------------------------------------------------------------------------

MaxArrayLen == 2

\* an object with the three fields the validation reads, each truthy or not
Obj(name, priceRaw, priceNormalized) ==
    [name |-> name, priceRaw |-> priceRaw,
     priceNormalized |-> priceNormalized]

\* the elements of the arrays: null, a primitive, the eight objects
Elements ==
    {Null, Primitive}
    \cup {Obj(n, r, p) : n \in BOOLEAN, r \in BOOLEAN, p \in BOOLEAN}

ValidateInputs ==
    {Array(items) : items \in StringsUpTo(Elements, MaxArrayLen)}
    \cup {NotArray(v) : v \in {Null, Primitive, Obj(TRUE, TRUE, TRUE)}}

ValidateInit ==
    /\ cache = EmptyCache
    /\ GenIdle
    /\ CrawlIdle
    /\ NavIdle
    /\ LookupIdle
    /\ callPc = "called"
    /\ callArg \in ValidateInputs
    /\ callResults = <<>>
    /\ PopupIdle

\* validateExtractedProducts(products)
Validate ==
    /\ callPc = "called"
    /\ callResults' = <<validateExtractedProducts(callArg)>>
    /\ callPc' = "validated"
    /\ UNCHANGED <<genVars, crawlVars, navVars, lookupVars, callArg, popupVars>>

ValidateNext == Validate

\* ------------------------------------------------------------------------
\* Model responses as strings, and JSON.parse on them.  The strings of the
\* model are made of letters, digits standing alone, the punctuation of
\* JSON objects, backslashes, backticks, spaces and raw newlines; they
\* hold no array, no number of several digits, no true or false, and no
\* backslash followed by u, b or f.
\* ------------------------------------------------------------------------

Quote == "\""
Backslash == "\\"
Newline == "\n"
Tab == "\t"

\* the values JSON.parse returns
JNull == [type |-> "null"]
JNumber(digit) == [type |-> "number", digit |-> digit]
JString(chars) == [type |-> "string", chars |-> chars]
JObject(members) == [type |-> "object", members |-> members]
Undefined == [type |-> "undefined"]

Digits == {"0", "1", "5"}

\* JSON whitespace, which is also what \s matches in the strings of the model
JsonWhitespace == {" ", Newline, Tab, "\r"}

\* the characters that may not stand unescaped in a JSON string
ControlChars == {Newline, Tab, "\r"}

RECURSIVE SkipWhitespace(_, _)
SkipWhitespace(s, i) ==
    IF i <= Len(s) /\ s[i] \in JsonWhitespace
    THEN SkipWhitespace(s, i + 1)
    ELSE i

\* s.indexOf(part, from), counting positions from 1; 0 when not found
IndexOf(s, part, from) ==
    LET hits == {i \in from..(Len(s) - Len(part) + 1) :
                    SubSeq(s, i, i + Len(part) - 1) = part}
    IN  IF hits = {} THEN 0 ELSE CHOOSE i \in hits : \A j \in hits : i <= j

\* the part is found in s at position i
OccursAt(s, part, i) ==
    /\ i >= 1
    /\ i + Len(part) - 1 <= Len(s)
    /\ SubSeq(s, i, i + Len(part) - 1) = part

SyntaxError == [ok |-> FALSE, value |-> Undefined, next |-> 0]

Parsed(value, next) == [ok |-> TRUE, value |-> value, next |-> next]

\* the character an escape sequence \c of a JSON string stands for
EscapedChar(c) ==
    CASE c = "n" -> Newline
      [] c = "t" -> Tab
      [] c = "r" -> "\r"
      [] OTHER -> c

\* a JSON string from the character after its opening quote on
RECURSIVE ParseString(_, _, _)
ParseString(s, i, acc) ==
    IF i > Len(s) THEN SyntaxError
    ELSE IF s[i] = Quote THEN Parsed(JString(acc), i + 1)
    ELSE IF s[i] \in ControlChars THEN SyntaxError
    ELSE IF s[i] = Backslash
         THEN IF i + 1 <= Len(s)
                 /\ s[i + 1] \in {Quote, Backslash, "/", "n", "t", "r"}
              THEN ParseString(s, i + 2, Append(acc, EscapedChar(s[i + 1])))
              ELSE SyntaxError
         ELSE ParseString(s, i + 1, Append(acc, s[i]))

\* a JSON value, and the members of an object from the first one on
RECURSIVE ParseValue(_, _)
RECURSIVE ParseMembers(_, _, _)
ParseValue(s, from) ==
    LET i == SkipWhitespace(s, from)
    IN  IF i > Len(s) THEN SyntaxError
        ELSE IF s[i] = Quote THEN ParseString(s, i + 1, <<>>)
        ELSE IF s[i] \in Digits THEN Parsed(JNumber(s[i]), i + 1)
        ELSE IF OccursAt(s, <<"n", "u", "l", "l">>, i)
             THEN Parsed(JNull, i + 4)
        ELSE IF s[i] = "{"
             THEN LET j == SkipWhitespace(s, i + 1)
                  IN  IF j <= Len(s) /\ s[j] = "}"
                      THEN Parsed(JObject(<<>>), j + 1)
                      ELSE ParseMembers(s, j, <<>>)
        ELSE SyntaxError

ParseMembers(s, i, acc) ==
    IF i > Len(s) \/ s[i] # Quote THEN SyntaxError
    ELSE LET key == ParseString(s, i + 1, <<>>)
         IN  IF ~key.ok THEN SyntaxError
             ELSE LET colon == SkipWhitespace(s, key.next)
                  IN  IF colon > Len(s) \/ s[colon] # ":" THEN SyntaxError
                      ELSE LET val == ParseValue(s, colon + 1)
                           IN  IF ~val.ok THEN SyntaxError
                               ELSE LET e == SkipWhitespace(s, val.next)
                                        members ==
                                            Append(acc,
                                                   [key |-> key.value.chars,
                                                    value |-> val.value])
                                    IN  IF e > Len(s) THEN SyntaxError
                                        ELSE IF s[e] = "}"
                                        THEN Parsed(JObject(members), e + 1)
                                        ELSE IF s[e] = ","
                                        THEN ParseMembers(
                                                 s, SkipWhitespace(s, e + 1),
                                                 members)
                                        ELSE SyntaxError

\* JSON.parse(s): the value, or a SyntaxError
JSONParse(s) ==
    LET v == ParseValue(s, 1)
    IN  IF v.ok /\ SkipWhitespace(s, v.next) = Len(s) + 1
        THEN [threw |-> FALSE, value |-> v.value]
        ELSE [threw |-> TRUE, value |-> Undefined]

\* ------------------------------------------------------------------------
\* parseLLMResponse on the text of a response
\* ------------------------------------------------------------------------

ExplanationKey ==
    <<Quote, "e", "x", "p", "l", "a", "n", "a", "t", "i", "o", "n", Quote>>

CodeKey == <<Quote, "c", "o", "d", "e", Quote>>

\* the backtick, written ^ since a string of this language cannot hold it
Backtick == "^"

Fence == <<Backtick, Backtick, Backtick>>

JsonWord == <<"j", "s", "o", "n">>

NoExplanation ==
    <<"N", "o", " ", "e", "x", "p", "l", "a", "n", "a", "t", "i", "o", "n",
      " ", "p", "r", "o", "v", "i", "d", "e", "d">>

NoMatch == [found |-> FALSE, text |-> <<>>]

Match(text) == [found |-> TRUE, text |-> text]

Positions(s, part) == {i \in 1..Len(s) : OccursAt(s, part, i)}

Least(S) == CHOOSE i \in S : \A j \in S : i <= j

Greatest(S) == CHOOSE i \in S : \A j \in S : i >= j

\* the positions of a `}' at which \{[\s\S]*"explanation"[\s\S]*"code"[\s\S]*\}
\* can end when it starts at the `{' of position start
ObjectEnds(s, start) ==
    {l \in 1..Len(s) :
        /\ s[l] = "}"
        /\ \E j \in Positions(s, ExplanationKey), k \in Positions(s, CodeKey) :
              /\ j > start
              /\ k >= j + Len(ExplanationKey)
              /\ l >= k + Len(CodeKey)}

\* response.match(/```(?:json)?\s*(\{...\})\s*```/): the captured group of
\* the leftmost match, the greedy quantifiers taking the last `}' that is
\* followed by a closing fence
jsonCodeBlockMatch(response) ==
    LET ObjectStart(f) ==
            SkipWhitespace(response,
                           IF OccursAt(response, JsonWord, f + Len(Fence))
                           THEN f + Len(Fence) + Len(JsonWord)
                           ELSE f + Len(Fence))
        Ends(f) ==
            {l \in ObjectEnds(response, ObjectStart(f)) :
                OccursAt(response, Fence, SkipWhitespace(response, l + 1))}
        starts ==
            {f \in Positions(response, Fence) :
                /\ ObjectStart(f) <= Len(response)
                /\ response[ObjectStart(f)] = "{"
                /\ Ends(f) # {}}
    IN  IF starts = {} THEN NoMatch
        ELSE LET f == Least(starts)
             IN  Match(SubSeq(response, ObjectStart(f), Greatest(Ends(f))))

\* response.match(/\{[\s\S]*"explanation"[\s\S]*"code"[\s\S]*\}/)
jsonObjectMatch(response) ==
    LET starts == {i \in 1..Len(response) :
                      response[i] = "{" /\ ObjectEnds(response, i) # {}}
    IN  IF starts = {} THEN NoMatch
        ELSE LET i == Least(starts)
             IN  Match(SubSeq(response, i, Greatest(ObjectEnds(response, i))))

\* lines 228-242: the text handed to JSON.parse
jsonToParse(response) ==
    IF jsonCodeBlockMatch(response).found
    THEN jsonCodeBlockMatch(response).text
    ELSE IF jsonObjectMatch(response).found
         THEN jsonObjectMatch(response).text
         ELSE response

\* the number of backslashes that end at position i
RECURSIVE BackslashesBefore(_, _)
BackslashesBefore(s, i) ==
    IF i >= 1 /\ s[i] = Backslash THEN 1 + BackslashesBefore(s, i - 1) ELSE 0

\* the while loop of sanitizeJsonString: the first quote from quoteEnd on
\* that is preceded by an even number of backslashes; 0 when there is none
RECURSIVE ClosingQuote(_, _)
ClosingQuote(s, quoteEnd) ==
    IF quoteEnd > Len(s) THEN 0
    ELSE LET nextQuote == IndexOf(s, <<Quote>>, quoteEnd)
         IN  IF nextQuote = 0 THEN 0
             ELSE IF BackslashesBefore(s, nextQuote - 1) % 2 = 0
                  THEN nextQuote
                  ELSE ClosingQuote(s, nextQuote + 1)

\* the chain of replacements of lines 88-99, character by character
RECURSIVE EscapeControlChars(_)
EscapeControlChars(s) ==
    IF s = <<>> THEN <<>>
    ELSE (CASE s[1] = Backslash -> <<Backslash, Backslash>>
            [] s[1] = Newline -> <<Backslash, "n">>
            [] s[1] = "\r" -> <<Backslash, "r">>
            [] s[1] = Tab -> <<Backslash, "t">>
            [] OTHER -> <<s[1]>>)
         \o EscapeControlChars(Tail(s))

sanitizeJsonString(jsonString) ==
    LET codeFieldStart == IndexOf(jsonString, CodeKey, 1)
        colonIndex == IndexOf(jsonString, <<":">>, codeFieldStart)
        quoteStart == IndexOf(jsonString, <<Quote>>, colonIndex)
        quoteEnd == ClosingQuote(jsonString, quoteStart + 1)
    IN  IF codeFieldStart = 0 THEN jsonString
        ELSE IF colonIndex = 0 THEN jsonString
        ELSE IF quoteStart = 0 THEN jsonString
        ELSE IF quoteEnd = 0 THEN jsonString
        ELSE SubSeq(jsonString, 1, quoteStart)
             \o EscapeControlChars(
                    SubSeq(jsonString, quoteStart + 1, quoteEnd - 1))
             \o SubSeq(jsonString, quoteEnd, Len(jsonString))

\* text.match(/"key"\s*:\s*"([\s\S]*?)"\s*[,\}]/): the captured group of the
\* leftmost match, the lazy quantifier stopping at the first quote that is
\* followed by a comma or a closing brace
FieldMatch(text, key) ==
    LET Colon(c) == SkipWhitespace(text, c + Len(key))
        Opening(c) == SkipWhitespace(text, Colon(c) + 1)
        Closers(c) ==
            {e \in (Opening(c) + 1)..Len(text) :
                /\ text[e] = Quote
                /\ LET after == SkipWhitespace(text, e + 1)
                   IN  after <= Len(text) /\ text[after] \in {",", "}"}}
        starts ==
            {c \in Positions(text, key) :
                /\ Colon(c) <= Len(text)
                /\ text[Colon(c)] = ":"
                /\ Opening(c) <= Len(text)
                /\ text[Opening(c)] = Quote
                /\ Closers(c) # {}}
    IN  IF starts = {} THEN NoMatch
        ELSE LET c == Least(starts)
             IN  Match(SubSeq(text, Opening(c) + 1, Least(Closers(c)) - 1))

\* s.replace(/\\c/g, with): every backslash followed by c, from the left
RECURSIVE ReplaceEscape(_, _, _)
ReplaceEscape(s, c, with) ==
    IF s = <<>> THEN <<>>
    ELSE IF Len(s) >= 2 /\ s[1] = Backslash /\ s[2] = c
         THEN <<with>> \o ReplaceEscape(SubSeq(s, 3, Len(s)), c, with)
         ELSE <<s[1]>> \o ReplaceEscape(Tail(s), c, with)

\* lines 271-276
UnescapeCode(text) ==
    ReplaceEscape(
        ReplaceEscape(
            ReplaceEscape(
                ReplaceEscape(
                    ReplaceEscape(text, "n", Newline),
                    "r", "\r"),
                "t", Tab),
            Quote, Quote),
        Backslash, Backslash)

\* line 279
UnescapeExplanation(text) ==
    ReplaceEscape(ReplaceEscape(text, Quote, Quote), "n", Newline)

\* the {explanation, code} object built by the last two branches
ManualResponse(explanation, code) ==
    JObject(<<[key |-> <<"e", "x", "p", "l", "a", "n", "a", "t", "i", "o", "n">>,
               value |-> JString(explanation)],
              [key |-> <<"c", "o", "d", "e">>, value |-> JString(code)]>>)

\* parsedResponse as lines 244-292 leave it, with the branch that set it
parsedResponseOf(response) ==
    LET text == jsonToParse(response)
        direct == JSONParse(text)
        sanitized == JSONParse(sanitizeJsonString(text))
        codeMatch == FieldMatch(text, CodeKey)
        explanationMatch == FieldMatch(text, ExplanationKey)
    IN  IF ~direct.threw
        THEN [path |-> "direct", value |-> direct.value]
        ELSE IF ~sanitized.threw
        THEN [path |-> "sanitized", value |-> sanitized.value]
        ELSE IF codeMatch.found
        THEN [path |-> "manual",
              value |-> ManualResponse(
                            IF explanationMatch.found
                            THEN UnescapeExplanation(explanationMatch.text)
                            ELSE NoExplanation,
                            UnescapeCode(codeMatch.text))]
        ELSE [path |-> "whole",
              value |-> ManualResponse(NoExplanation, response)]

\* value[key] for a value JSON.parse returned: the last member of that
\* name of an object, undefined otherwise
RECURSIVE MemberOf(_, _, _)
MemberOf(members, key, i) ==
    IF i = 0 THEN Undefined
    ELSE IF members[i].key = key THEN members[i].value
    ELSE MemberOf(members, key, i - 1)

Property(value, key) ==
    IF value.type = "object"
    THEN MemberOf(value.members, key, Len(value.members))
    ELSE Undefined

\* !v
Falsy(v) == v \in {Undefined, JNull, JString(<<>>), JNumber("0")}

\* parseLLMResponse(response), response being the text of the reply:
\* reading .code of null raises a TypeError, a falsy code the missing-code
\* error, anything else is returned
parseResponseText(response) ==
    LET parsedResponse == parsedResponseOf(response)
        code == Property(parsedResponse.value, <<"c", "o", "d", "e">>)
    IN  [path |-> parsedResponse.path,
         value |-> parsedResponse.value,
         code |-> code,
         outcome |-> IF parsedResponse.value.type = "null" THEN "typeError"
                     ELSE IF Falsy(code) THEN "missingCode"
                     ELSE "returned"]

\* ------------------------------------------------------------------------
\* The responses parseLLMResponse is applied to: a code text of at most
\* MaxCodeLen characters, alone or as the code field of a JSON object that
\* stands alone, in a fenced block or between words, and a few responses
\* that are JSON values of other shapes
\* ------------------------------------------------------------------------

MaxCodeLen == 3

\* the characters of a code text: a letter, the letter of the escape \n,
\* a backslash, a quote and a raw newline
CodeChars == {"a", "n", Backslash, Quote, Newline}

CodeTexts == StringsUpTo(CodeChars, MaxCodeLen)

\* {"explanation":"e","code":"
ObjectHead ==
    <<"{", Quote, "e", "x", "p", "l", "a", "n", "a", "t", "i", "o", "n",
    Quote, ":", Quote, "e", Quote, ",", Quote, "c", "o", "d", "e", Quote,
    ":", Quote>>

\* {"code":"
CodeOnlyHead ==
    <<"{", Quote, "c", "o", "d", "e", Quote, ":", Quote>>

\* "}
ObjectTail ==
    <<Quote, "}">>

\* ","explanation":"e"}
ExplanationTail ==
    <<Quote, ",", Quote, "e", "x", "p", "l", "a", "n", "a", "t", "i", "o",
    "n", Quote, ":", Quote, "e", Quote, "}">>

\* a well-formed object whose code field holds the text as it is
ObjectOf(text) == ObjectHead \o text \o ObjectTail

\* the object inside a fenced block marked json
FencedObjectOf(text) ==
    Fence \o JsonWord \o <<Newline>> \o ObjectOf(text) \o <<Newline>> \o Fence

\* the object after and before a word
ObjectInProse(text) == <<"a", " ">> \o ObjectOf(text) \o <<" ", "a">>

\* an object that has a code field and nothing else
CodeOnlyObjectOf(text) == CodeOnlyHead \o text \o ObjectTail

\* an object whose code field comes first
CodeFirstObjectOf(text) == CodeOnlyHead \o text \o ExplanationTail

\* null
NullResponse ==
    <<"n", "u", "l", "l">>

\* 0
ZeroResponse ==
    <<"0">>

\* "a"
StringResponse ==
    <<Quote, "a", Quote>>

\* {}
EmptyObjectResponse ==
    <<"{", "}">>

\* {"explanation":"e"}
NoCodeResponse ==
    <<"{", Quote, "e", "x", "p", "l", "a", "n", "a", "t", "i", "o", "n",
    Quote, ":", Quote, "e", Quote, "}">>

\* {"explanation":"e","code":0}
ZeroCodeResponse ==
    <<"{", Quote, "e", "x", "p", "l", "a", "n", "a", "t", "i", "o", "n",
    Quote, ":", Quote, "e", Quote, ",", Quote, "c", "o", "d", "e", Quote,
    ":", "0", "}">>

\* {"explanation":"e","code":null}
NullCodeResponse ==
    <<"{", Quote, "e", "x", "p", "l", "a", "n", "a", "t", "i", "o", "n",
    Quote, ":", Quote, "e", Quote, ",", Quote, "c", "o", "d", "e", Quote,
    ":", "n", "u", "l", "l", "}">>

\* {"explanation":"e","code":5}
NumberCodeResponse ==
    <<"{", Quote, "e", "x", "p", "l", "a", "n", "a", "t", "i", "o", "n",
    Quote, ":", Quote, "e", Quote, ",", Quote, "c", "o", "d", "e", Quote,
    ":", "5", "}">>

\* {"explanation":"e","code":{}}
ObjectCodeResponse ==
    <<"{", Quote, "e", "x", "p", "l", "a", "n", "a", "t", "i", "o", "n",
    Quote, ":", Quote, "e", Quote, ",", Quote, "c", "o", "d", "e", Quote,
    ":", "{", "}", "}">>

\* ^^^json\nnull\n^^^
FencedNullResponse ==
    <<Backtick, Backtick, Backtick, "j", "s", "o", "n", Newline, "n", "u",
    "l", "l", Newline, Backtick, Backtick, Backtick>>

OtherResponses ==
    {NullResponse,
     ZeroResponse,
     StringResponse,
     EmptyObjectResponse,
     NoCodeResponse,
     ZeroCodeResponse,
     NullCodeResponse,
     NumberCodeResponse,
     ObjectCodeResponse,
     FencedNullResponse}

\* the non-empty responses of the model
ParseInputs ==
    (CodeTexts \ {<<>>})
    \cup {ObjectOf(t) : t \in CodeTexts}
    \cup {FencedObjectOf(t) : t \in CodeTexts}
    \cup {ObjectInProse(t) : t \in CodeTexts}
    \cup {CodeOnlyObjectOf(t) : t \in CodeTexts}
    \cup {CodeFirstObjectOf(t) : t \in CodeTexts}
    \cup OtherResponses

ParseInit ==
    /\ cache = EmptyCache
    /\ GenIdle
    /\ CrawlIdle
    /\ NavIdle
    /\ LookupIdle
    /\ callPc = "called"
    /\ callArg \in ParseInputs
    /\ callResults = <<>>
    /\ PopupIdle

\* parseLLMResponse(response)
ParseResponse ==
    /\ callPc = "called"
    /\ callResults' = <<parseResponseText(callArg)>>
    /\ callPc' = "parsed"
    /\ UNCHANGED <<genVars, crawlVars, navVars, lookupVars, callArg, popupVars>>

ParseNext == ParseResponse

\* ------------------------------------------------------------------------
\* The buttons of the popup and their click handlers
\* ------------------------------------------------------------------------

\* clicks on the three buttons that are followed
MaxClicks == 3

\* pages a crawl of the popup goes through
MaxPopupPages == 2

\* a started handler: the button it belongs to, the await it is suspended
\* at ("done" once its finally block has run) and the iteration of the
\* reflection loop or the page of the crawl it is in
Handler(kind, phase, round) ==
    [kind |-> kind, phase |-> phase, round |-> round]

\* the variables of the crawl the handlers of the popup leave alone
crawlProgress == <<crawlPc, crawlUrl, savedCode, maxPages, pageNumber,
                   hasMorePages, consecutiveFailures, allProducts, navAttempt,
                   wasStopped, saveCalls, savedContent, crawlOutcome, pageLog,
                   navigated, stopAt, crawls>>

PopupInit ==
    /\ cache = EmptyCache
    /\ GenIdle
    /\ CrawlIdle
    /\ NavIdle
    /\ LookupIdle
    /\ CallIdle
    /\ PopupIdle

\* the handlers that have not reached the end of their finally block
Running == {i \in DOMAIN handlers : handlers[i].phase # "done"}

RunningOf(kind) == {i \in Running : handlers[i].kind = kind}

\* a disabled button does not deliver the click of the user
\* click on saveJsonBtn: the button and obtainProductsBtn are disabled and
\* the url of the tab is asked for; scrapeAllPagesBtn is left as it is
ClickSaveJson ==
    /\ ~saveJsonBtnDisabled
    /\ Len(handlers) < MaxClicks
    /\ saveJsonBtnDisabled' = TRUE
    /\ obtainProductsBtnDisabled' = TRUE
    /\ handlers' = Append(handlers, Handler("saveJsonBtn", "getTabInfo", 0))
    /\ UNCHANGED <<scrapeAllPagesBtnDisabled, shouldStopScraper,
                   stopBtnEnabled, crawlProgress>>
    /\ UNCHANGED <<genVars, navVars, lookupVars, callVars>>

\* click on obtainProductsBtn: the button and saveJsonBtn are disabled and
\* the url of the tab is asked for; scrapeAllPagesBtn is left as it is
ClickObtainProducts ==
    /\ ~obtainProductsBtnDisabled
    /\ Len(handlers) < MaxClicks
    /\ obtainProductsBtnDisabled' = TRUE
    /\ saveJsonBtnDisabled' = TRUE
    /\ handlers' = Append(handlers,
                          Handler("obtainProductsBtn", "getTabInfo", 0))
    /\ UNCHANGED <<scrapeAllPagesBtnDisabled, shouldStopScraper,
                   stopBtnEnabled, crawlProgress>>
    /\ UNCHANGED <<genVars, navVars, lookupVars, callVars>>

\* click on scrapeAllPagesBtn: the flag is reset, the stop button shown,
\* the three buttons disabled and the url of the tab asked for
ClickScrapeAllPages ==
    /\ ~scrapeAllPagesBtnDisabled
    /\ Len(handlers) < MaxClicks
    /\ shouldStopScraper' = FALSE
    /\ stopBtnEnabled' = TRUE
    /\ scrapeAllPagesBtnDisabled' = TRUE
    /\ saveJsonBtnDisabled' = TRUE
    /\ obtainProductsBtnDisabled' = TRUE
    /\ handlers' = Append(handlers,
                          Handler("scrapeAllPagesBtn", "getTabInfo", 0))
    /\ UNCHANGED crawlProgress
    /\ UNCHANGED <<genVars, navVars, lookupVars, callVars>>

\* click on stopScraperBtn while it is shown and enabled
ClickStopScraper ==
    /\ stopBtnEnabled
    /\ shouldStopScraper' = TRUE
    /\ stopBtnEnabled' = FALSE
    /\ UNCHANGED <<popupVars, crawlProgress>>
    /\ UNCHANGED <<genVars, navVars, lookupVars, callVars>>

\* where the handler of saveJsonBtn goes on after the await it is at:
\* getTabInfo, then generateAndSaveParser (a model call and an execution of
\* the code on the tab per iteration; a failed iteration is retried up to
\* the third), then executeParserCode and saveFile
SaveJsonSuccessors(h) ==
    CASE h.phase = "getTabInfo" ->
           {Handler(h.kind, "modelCall", 1)}
      [] h.phase = "modelCall" ->
           {Handler(h.kind, "validate", h.round)}
             \cup {Handler(h.kind, "modelCall", h.round + 1) :
                     x \in {y \in {h.round} : y < MAX_ITERATIONS}}
      [] h.phase = "validate" ->
           {Handler(h.kind, "execute", h.round)}
             \cup {Handler(h.kind, "modelCall", h.round + 1) :
                     x \in {y \in {h.round} : y < MAX_ITERATIONS}}
      [] h.phase = "execute" ->
           {Handler(h.kind, "saveFile", h.round)}
      [] OTHER -> {}

\* the awaits of the handler of saveJsonBtn that can end it: a rejection
\* outside the reflection loop or in its last iteration, or the end of
\* saveFile
SaveJsonEnds(h) ==
    \/ h.phase \in {"getTabInfo", "execute", "saveFile"}
    \/ h.phase \in {"modelCall", "validate"} /\ h.round = MAX_ITERATIONS

\* the handler of obtainProductsBtn: getTabInfo, loadSavedParserCode,
\* executeParserCode, saveFile
ObtainProductsSuccessors(h) ==
    CASE h.phase = "getTabInfo" -> {Handler(h.kind, "loadParser", 0)}
      [] h.phase = "loadParser" -> {Handler(h.kind, "execute", 0)}
      [] h.phase = "execute" -> {Handler(h.kind, "saveFile", 0)}
      [] OTHER -> {}

\* the handler of scrapeAllPagesBtn: getTabInfo, loadSavedParserCode, the
\* execution of the code on the current page, then per further page a
\* navigation, an execution and a delay, and saveFile at the end; the loop
\* is left when the flag is set
ScrapeAllPagesSuccessors(h, stop) ==
    LET more == ~stop /\ h.round < MaxPopupPages
        onwards == IF more
                   THEN {Handler(h.kind, "navigate", h.round + 1),
                         Handler(h.kind, "saveFile", h.round)}
                   ELSE {Handler(h.kind, "saveFile", h.round)}
    IN  CASE h.phase = "getTabInfo" -> {Handler(h.kind, "loadParser", 0)}
          [] h.phase = "loadParser" -> {Handler(h.kind, "execute", 1)}
          [] h.phase = "execute" /\ h.round = 1 -> onwards
          [] h.phase = "navigate" ->
               {Handler(h.kind, "execute", h.round),
                Handler(h.kind, "delay", h.round)}
          [] h.phase = "execute" /\ h.round > 1 ->
               {Handler(h.kind, "delay", h.round),
                Handler(h.kind, "saveFile", h.round)}
          [] h.phase = "delay" -> onwards
          [] OTHER -> {}

\* the awaits of the handler of scrapeAllPagesBtn that can end it: the
\* rejections before the loop over the further pages, and saveFile
ScrapeAllPagesEnds(h) ==
    \/ h.phase \in {"getTabInfo", "loadParser", "saveFile"}
    \/ h.phase = "execute" /\ h.round = 1

\* an await of a handler of saveJsonBtn settles and the handler goes on
SaveJsonStep ==
    /\ \E i \in RunningOf("saveJsonBtn") :
         \E next \in SaveJsonSuccessors(handlers[i]) :
             handlers' = [handlers EXCEPT ![i] = next]
    /\ UNCHANGED <<saveJsonBtnDisabled, obtainProductsBtnDisabled,
                   scrapeAllPagesBtnDisabled>>
    /\ UNCHANGED <<genVars, crawlVars, navVars, lookupVars, callVars>>

\* a handler of saveJsonBtn ends, by an error or not: its finally block
\* enables saveJsonBtn and obtainProductsBtn
SaveJsonFinally ==
    /\ \E i \in RunningOf("saveJsonBtn") :
         /\ SaveJsonEnds(handlers[i])
         /\ handlers' = [handlers EXCEPT ![i].phase = "done"]
    /\ saveJsonBtnDisabled' = FALSE
    /\ obtainProductsBtnDisabled' = FALSE
    /\ UNCHANGED scrapeAllPagesBtnDisabled
    /\ UNCHANGED <<genVars, crawlVars, navVars, lookupVars, callVars>>

\* an await of a handler of obtainProductsBtn settles and the handler goes
\* on
ObtainProductsStep ==
    /\ \E i \in RunningOf("obtainProductsBtn") :
         \E next \in ObtainProductsSuccessors(handlers[i]) :
             handlers' = [handlers EXCEPT ![i] = next]
    /\ UNCHANGED <<saveJsonBtnDisabled, obtainProductsBtnDisabled,
                   scrapeAllPagesBtnDisabled>>
    /\ UNCHANGED <<genVars, crawlVars, navVars, lookupVars, callVars>>

\* a handler of obtainProductsBtn ends, by an error or not: its finally
\* block enables obtainProductsBtn and saveJsonBtn
ObtainProductsFinally ==
    /\ \E i \in RunningOf("obtainProductsBtn") :
         handlers' = [handlers EXCEPT ![i].phase = "done"]
    /\ obtainProductsBtnDisabled' = FALSE
    /\ saveJsonBtnDisabled' = FALSE
    /\ UNCHANGED scrapeAllPagesBtnDisabled
    /\ UNCHANGED <<genVars, crawlVars, navVars, lookupVars, callVars>>

\* an await of the handler of scrapeAllPagesBtn settles and the handler
\* goes on
ScrapeAllPagesStep ==
    /\ \E i \in RunningOf("scrapeAllPagesBtn") :
         \E next \in ScrapeAllPagesSuccessors(handlers[i], shouldStopScraper) :
             handlers' = [handlers EXCEPT ![i] = next]
    /\ UNCHANGED <<saveJsonBtnDisabled, obtainProductsBtnDisabled,
                   scrapeAllPagesBtnDisabled>>
    /\ UNCHANGED <<genVars, crawlVars, navVars, lookupVars, callVars>>

\* the handler of scrapeAllPagesBtn ends, by an error or not: its finally
\* block enables the three buttons, hides the stop button and resets the
\* flag
ScrapeAllPagesFinally ==
    /\ \E i \in RunningOf("scrapeAllPagesBtn") :
         /\ ScrapeAllPagesEnds(handlers[i])
         /\ handlers' = [handlers EXCEPT ![i].phase = "done"]
    /\ scrapeAllPagesBtnDisabled' = FALSE
    /\ saveJsonBtnDisabled' = FALSE
    /\ obtainProductsBtnDisabled' = FALSE
    /\ stopBtnEnabled' = FALSE
    /\ shouldStopScraper' = FALSE
    /\ UNCHANGED crawlProgress
    /\ UNCHANGED <<genVars, navVars, lookupVars, callVars>>

PopupNext ==
    \/ ClickSaveJson
    \/ ClickObtainProducts
    \/ ClickScrapeAllPages
    \/ ClickStopScraper
    \/ SaveJsonStep
    \/ SaveJsonFinally
    \/ ObtainProductsStep
    \/ ObtainProductsFinally
    \/ ScrapeAllPagesStep
    \/ ScrapeAllPagesFinally

\* ------------------------------------------------------------------------
\* The crawl together with its navigation attempts: the page loop calls
\* navigateAndExtractMarkdown and waits for the promise to settle
\* ------------------------------------------------------------------------

\* pages a crawl may be configured for when its navigation attempts are
\* followed step by step
MaxLivePages == 2

\* click on scrapeAllPagesBtn in a popup just opened
LiveClick ==
    /\ crawls = 0
    /\ ScrapeAllPagesClick

\* loadSavedParserCode settles and the configured maximum is read
LiveParserLoaded ==
    /\ CrawlParserLoaded
    /\ maxPages' <= MaxLivePages

\* the page loop calls navigateAndExtractMarkdown for the page: a new
\* promise with its own `resolved`, timer and listener; what is left of the
\* previous attempt has no access to it
LiveNavCall ==
    /\ crawlPc = "navigate"
    /\ navPromise = "none"
    /\ \E url \in NavTargets : navTarget' = url
    /\ navPromise' = "pending"
    /\ navOutcome' = "none"
    /\ resolved' = FALSE
    /\ timeoutArmed' = TRUE
    /\ listening' = TRUE
    /\ updatePromise' = "pending"
    /\ getPromise' = "none"
    /\ navPhase' = "none"
    /\ probes' = 0
    /\ injections' = 0
    /\ extractions' = 0
    /\ firstEvent' = "none"
    /\ matchedUrl' = NoUrl
    /\ extractionStarts' = 0
    /\ settleCalls' = 0
    /\ UNCHANGED navCalls
    /\ UNCHANGED <<genVars, crawlVars, lookupVars, callVars, popupVars>>

\* what the awaiting page loop gets from the settled promise
AwaitedResult ==
    IF navPromise = "rejected" THEN "rejected"
    ELSE IF navOutcome = "markdown" THEN "markdown" ELSE "empty"

\* the promise has settled and the page loop goes on with its result;
\* the callbacks of the attempt that are still to come cannot reach the
\* page loop any more and are not followed further
LiveNavigated ==
    /\ navPromise \in {"resolved", "rejected"}
    /\ AttemptSettled(AwaitedResult)
    /\ navPromise' = "none"
    /\ navTarget' = NoUrl
    /\ resolved' = FALSE
    /\ listening' = FALSE
    /\ timeoutArmed' = FALSE
    /\ updatePromise' = "none"
    /\ getPromise' = "none"
    /\ navPhase' = "none"
    /\ probes' = 0
    /\ injections' = 0
    /\ extractions' = 0
    /\ matchedUrl' = NoUrl
    /\ extractionStarts' = 0
    /\ settleCalls' = 0
    /\ UNCHANGED <<navOutcome, firstEvent, navCalls>>
    /\ UNCHANGED <<genVars, lookupVars, callVars, popupVars>>

LiveNext ==
    \/ LiveClick
    \/ StopScraperClick
    \/ LiveParserLoaded
    \/ CrawlPage1
    \/ LiveNavCall
    \/ NavTimeout
    \/ NavTabUpdated
    \/ NavUpdateSettled
    \/ NavTabGot
    \/ NavSettleOver
    \/ NavProbed
    \/ NavExtracted
    \/ LiveNavigated
    \/ CrawlNavRetry
    \/ CrawlExecuted
    \/ CrawlDelayOver
    \/ CrawlSaved

\* every call to the host returns or fails and every timer fires; the
\* clicks of the user and the events of the tab may or may not happen
LiveFairness ==
    /\ WF_vars(LiveParserLoaded)
    /\ WF_vars(CrawlPage1)
    /\ WF_vars(LiveNavCall)
    /\ WF_vars(NavTimeout)
    /\ WF_vars(NavUpdateSettled)
    /\ WF_vars(NavTabGot)
    /\ WF_vars(NavSettleOver)
    /\ WF_vars(NavProbed)
    /\ WF_vars(NavExtracted)
    /\ WF_vars(LiveNavigated)
    /\ WF_vars(CrawlNavRetry)
    /\ WF_vars(CrawlExecuted)
    /\ WF_vars(CrawlDelayOver)
    /\ WF_vars(CrawlSaved)

\* the reflection loop alone, starting from an empty cache
SpecGen == GenInit /\ [][GenNext]_vars

\* the crawl alone, starting from a cache as generateAndSaveParser leaves it
SpecCrawl == CrawlInit /\ [][CrawlNext]_vars

\* navigateAndExtractMarkdown alone, under every order of its callbacks
SpecNav == NavInit /\ [][NavNext]_vars

\* loadSavedParserCode alone, on every storage of up to MaxEntries parsers
SpecLookup == LookupInit /\ [][LookupNext]_vars

\* normalizeUrlForStorage alone, on every string of NormalizeInputs
SpecNormalize == NormalizeInit /\ [][NormalizeNext]_vars

\* validateExtractedProducts alone, on every value of ValidateInputs
SpecValidate == ValidateInit /\ [][ValidateNext]_vars

\* parseLLMResponse alone, on every response of ParseInputs
SpecParse == ParseInit /\ [][ParseNext]_vars

\* the click handlers of the popup, interleaved at their awaits
SpecPopup == PopupInit /\ [][PopupNext]_vars

\* the crawl with its navigation attempts, every host call settling
SpecLive == CrawlInit /\ [][LiveNext]_vars /\ LiveFairness

\* ------------------------------------------------------------------------
\* Properties of generateAndSaveParser (checked under SpecGen)
\* ------------------------------------------------------------------------

\* a call has ended, by a return or by an exception
GenEnded == genPc \in {"returned", "failed"}

\* the code, run on the sample, returns and its result passes validation
PassesOnSample(code) ==
    LET run == executeParserCode(RunOnSample(code))
    IN  ~run.threw /\ validateExtractedProducts(Array(run.products)).isValid

\* the code, run on the sample, makes executeParserCode fail
ThrowsOnSample(code) == executeParserCode(RunOnSample(code)).threw

\* the cache holds `code` for the page of the current call, under its key
CacheHolds(code) ==
    /\ StorageKey(genUrl) \in DOMAIN cache
    /\ cache[StorageKey(genUrl)] = [code |-> code, url |-> genUrl]

\* C1: whatever the model replies and whatever the execution and the
\* validation of the code give, one call of generateAndSaveParser calls
\* the language model at most MAX_ITERATIONS = 3 times.
\* (a request that is in flight counts as a call)
C1_AtMostThreeModelCalls ==
    LET inFlight == IF genPc = "callModel" THEN 1 ELSE 0
    IN  /\ modelCalls + inFlight <= MAX_ITERATIONS
        /\ modelCalls + inFlight <= 3

\* a call that used its whole budget of model calls
C1_Witness == GenEnded /\ modelCalls = 3

\* the scenario of C2: a tab, iteration 1 without usable code, iteration 2
\* with code returning an empty array, iteration 3 with code that passes
C2_Scenario ==
    /\ genTab
    /\ GenEnded
    /\ Len(attempts) = 3
    /\ attempts[1].outcome = "malformed"
    /\ attempts[2].code # EmptyCode
    /\ ~ThrowsOnSample(attempts[2].code)
    /\ executeParserCode(RunOnSample(attempts[2].code)).products = <<>>
    /\ attempts[3].code # EmptyCode
    /\ PassesOnSample(attempts[3].code)

\* C2: with a tab, when iteration 1 yields no usable response, the code of
\* iteration 2 returns an empty array and the code of iteration 3 passes,
\* the call makes exactly 3 model calls, returns the code of iteration 3
\* and the cache entry of the page holds that code, not the one of
\* iteration 2.
C2_ThirdIterationCodePersisted ==
    C2_Scenario =>
        /\ modelCalls = 3
        /\ genPc = "returned"
        /\ genResult = attempts[3].code
        /\ CacheHolds(attempts[3].code)
        /\ cache[StorageKey(genUrl)].code # attempts[2].code

C2_Witness == C2_Scenario /\ genPc = "returned"

\* C3: with a tab, the first iteration whose code executes and passes
\* validation is the last one: its code is written to the cache under the
\* key of the page url and returned, the call has made one model call per
\* iteration up to that one, one execution per iteration that produced
\* code, and exactly one cache write; no call writes the cache twice.
C3_AcceptanceEndsTheCall ==
    /\ cacheWrites <= 1
    /\ genTab =>
          \A i \in 1..Len(attempts) :
              (attempts[i].code # EmptyCode /\ PassesOnSample(attempts[i].code))
              => /\ i = Len(attempts)
                 /\ genPc = "returned"
                 /\ genResult = attempts[i].code
                 /\ CacheHolds(attempts[i].code)
                 /\ modelCalls = i
                 /\ execCalls =
                       Cardinality({j \in 1..i : attempts[j].code # EmptyCode})
                 /\ cacheWrites = 1

\* a call accepted in its second iteration, after a failed first one
C3_Witness ==
    /\ genTab
    /\ genPc = "returned"
    /\ Len(attempts) = 2
    /\ PassesOnSample(attempts[2].code)
    /\ cacheWrites = 1

\* the case of C4: a tab, three iterations that all produced code, none of
\* it passing, the code of iteration 3 having run and failed validation
C4_Case ==
    /\ genTab
    /\ GenEnded
    /\ Len(attempts) = 3
    /\ \A i \in 1..3 : /\ attempts[i].code # EmptyCode
                       /\ ~PassesOnSample(attempts[i].code)
    /\ ~ThrowsOnSample(attempts[3].code)

FailureStep ==
    /\ Len(attempts') = Len(attempts) + 1
    /\ attempts'[Len(attempts')].outcome
          \in {"transport", "malformed", "execError", "invalid"}

\* C6: a failure of any kind in iteration 1 or 2 neither ends the call nor
\* reaches the caller: the controller goes on to the next iteration, whose
\* request carries a reflection prompt.
C6_EarlyFailuresAbsorbed ==
    [][(FailureStep /\ iteration < MAX_ITERATIONS)
          => /\ genPc' = "callModel"
             /\ iteration' = iteration + 1
             /\ prompt'.variant = "reflection"
             /\ cacheWrites' = 0]_vars

\* iteration 3 reached after a transport error and an execution error
C6_Witness ==
    /\ genPc = "callModel"
    /\ iteration = 3
    /\ attempts[1].outcome = "transport"
    /\ attempts[2].outcome = "execError"

\* ------------------------------------------------------------------------
\* Properties of the crawl (checked under SpecCrawl)
\* ------------------------------------------------------------------------

\* the click handler of scrapeAllPagesBtn has run to its end
CrawlEnded == crawlPc = "idle" /\ crawlOutcome \notin {"none", "running"}

\* the products of the logged pages, in page order
RECURSIVE ProductsOf(_)
ProductsOf(log) ==
    IF log = <<>> THEN <<>> ELSE log[1].products \o ProductsOf(Tail(log))

\* the two pages evaluated last gave no products
LastTwoPagesFailed ==
    /\ Len(pageLog) >= 2
    /\ pageLog[Len(pageLog)].outcome # "products"
    /\ pageLog[Len(pageLog) - 1].outcome # "products"

\* the scenario of C7: at most 5 pages, pages 1 to 3 with 2 products each,
\* pages 4 and 5 without products, no click on the stop button
C7_Scenario ==
    /\ maxPages = 5
    /\ stopAt = NoStop
    /\ Len(pageLog) = 5
    /\ \A n \in 1..3 : /\ pageLog[n].outcome = "products"
                       /\ Len(pageLog[n].products) = 2
    /\ \A n \in 4..5 : pageLog[n].outcome = "empty"

\* C7: once two consecutive pages have given no products the crawl
\* processes no further page, and, the stop button not having been
\* clicked, it saves exactly the products of the non-empty pages and
\* reports completion; in the scenario of 5 pages (2, 2, 2, 0, 0 products)
\* it stops after page 5 with consecutiveFailures = 2 and 6 products.
C7_StopsAfterTwoEmptyPages ==
    /\ LastTwoPagesFailed =>
          /\ consecutiveFailures = 2
          /\ crawlPc \in {"saving", "idle"}
          /\ (CrawlEnded /\ stopAt = NoStop) =>
                /\ savedContent = ProductsOf(pageLog)
                /\ crawlOutcome = "Completed"
                /\ ~wasStopped
    /\ C7_Scenario =>
          /\ consecutiveFailures = 2
          /\ pageNumber = 5
          /\ crawlPc \in {"saving", "idle"}
          /\ Len(allProducts) = 6
          /\ allProducts = <<Product(1, 1), Product(1, 2), Product(2, 1),
                             Product(2, 2), Product(3, 1), Product(3, 2)>>
          /\ ~wasStopped
          /\ CrawlEnded => /\ savedContent = allProducts
                           /\ saveCalls = 1
                           /\ crawlOutcome = "Completed"

C7_Witness == C7_Scenario /\ CrawlEnded /\ crawlOutcome = "Completed"

\* the stop button was clicked during the pause that follows page k
StoppedInDelay == stopAt.pc = "delay"

\* C8: when the flag is set in the pause after page k, before page k+1 is
\* started, no further page is navigated to or evaluated, and the crawl
\* ends by saving exactly the products of pages 1..k, reported as stopped.
C8_StopBetweenPages ==
    StoppedInDelay =>
        /\ Len(pageLog) = stopAt.pages
        /\ \A i \in 1..Len(pageLog) : pageLog[i].page = i
        /\ navigated \subseteq 2..stopAt.pages
        /\ crawlPc \in {"delay", "saving", "idle"}
        /\ CrawlEnded => /\ saveCalls = 1
                         /\ savedContent = ProductsOf(pageLog)
                         /\ wasStopped
                         /\ crawlOutcome = "Stopped"

\* a crawl stopped in the pause after page 2, both pages having products
C8_Witness ==
    /\ CrawlEnded
    /\ stopAt = [pc |-> "delay", pages |-> 2]
    /\ Len(savedContent) > Len(pageLog[1].products)
    /\ maxPages > 2

\* C9 as stated: every crawl that has started on its pages, also one whose
\* page 1 raised an error, ends by one call of saveFile with the
\* accumulated products and the status.
C9_AlwaysSavesOnce ==
    (CrawlEnded /\ Len(pageLog) >= 1) =>
        /\ saveCalls = 1
        /\ savedContent = allProducts
        /\ crawlOutcome = IF wasStopped THEN "Stopped" ELSE "Completed"

\* C9 amended: a crawl whose page 1 was processed without an error ends,
\* whatever stops it (threshold, page limit, cancellation, errors on later
\* pages), by exactly one call of saveFile with the accumulated products
\* and the status; an error on page 1 ends it with an error and no save.
C9_SavesOnceUnlessPage1Fails ==
    /\ saveCalls <= 1
    /\ (CrawlEnded /\ Len(pageLog) >= 1) =>
          IF pageLog[1].outcome = "error"
          THEN /\ saveCalls = 0
               /\ crawlOutcome = "error"
               /\ Len(pageLog) = 1
          ELSE /\ saveCalls = 1
               /\ savedContent = allProducts
               /\ savedContent = ProductsOf(pageLog)
               /\ crawlOutcome = IF wasStopped THEN "Stopped" ELSE "Completed"

\* a crawl that saved the products of page 1 after errors on pages 2 and 3
C9_Witness ==
    /\ CrawlEnded
    /\ saveCalls = 1
    /\ Len(pageLog) = 3
    /\ pageLog[2].outcome = "error"
    /\ pageLog[3].outcome = "error"
    /\ Len(savedContent) > 0

\* the step evaluates a page: an entry is added to the log
Evaluates(outcome) ==
    /\ Len(pageLog') = Len(pageLog) + 1
    /\ pageLog'[Len(pageLog')].outcome = outcome

\* what C10 says of the evaluation of a page
EvaluationRule ==
    /\ Evaluates("empty") =>
          /\ consecutiveFailures' = consecutiveFailures + 1
          /\ allProducts' = allProducts
          /\ consecutiveFailures' < 2 =>
                /\ crawlPc' = "delay"
                /\ pageNumber' = pageNumber + 1
    /\ Evaluates("products") =>
          /\ consecutiveFailures' = 0
          /\ allProducts' = allProducts \o pageLog'[Len(pageLog')].products
          /\ Len(pageLog'[Len(pageLog')].products) > 0

\* C10 as stated: the rule holds for every page n >= 1, page 1 included.
C10_EveryPageCounted == [][EvaluationRule]_vars

\* C10 amended: the rule holds for every page n >= 2; on page 1 a
\* non-empty result is appended and the crawl goes on to page 2, and an
\* empty result ends the page loop at once, the counter staying at 0.
C10_PagesAfterFirstCounted ==
    [][/\ pageNumber >= 2 => EvaluationRule
       /\ (pageNumber = 1 /\ Evaluates("empty")) =>
             /\ consecutiveFailures' = 0
             /\ allProducts' = <<>>
             /\ crawlPc' = "saving"
             /\ navigated' = {}
       /\ (pageNumber = 1 /\ Evaluates("products")) =>
             /\ consecutiveFailures' = 0
             /\ allProducts' = pageLog'[1].products
             /\ pageNumber' = 2]_vars

\* an empty page 2 did not end the crawl, and page 3 reset the counter
C10_Witness ==
    /\ Len(pageLog) = 3
    /\ pageLog[2].outcome = "empty"
    /\ pageLog[3].outcome = "products"
    /\ consecutiveFailures = 0
    /\ crawlPc = "delay"

\* the page loop has been left (saveFile is being called or the handler
\* has ended) after at least one page was evaluated
CrawlStopped == crawlPc \in {"saving", "idle"} /\ Len(pageLog) >= 1

\* no page beyond the configured maximum is navigated to or evaluated
WithinMaxPages ==
    maxPages >= 1 =>
        /\ navigated \subseteq 2..maxPages
        /\ \A i \in 1..Len(pageLog) : pageLog[i].page <= maxPages
        /\ Len(pageLog) <= maxPages

\* the three reasons C11 gives for the end of a crawl
ListedStopReason ==
    \/ consecutiveFailures = maxConsecutiveFailures
    \/ pageNumber > maxPages
    \/ wasStopped

\* C11 as stated: no page beyond maxPages, and a crawl stops only by the
\* failure threshold, the page limit or the cancellation flag.
C11_StopsOnlyForListedReasons ==
    /\ WithinMaxPages
    /\ CrawlStopped => ListedStopReason

\* C11 amended: for maxPages >= 1 no page beyond maxPages is navigated to
\* or evaluated, so at most maxPages pages are processed; a crawl stops
\* only because the counter reached 2, the page counter exceeded maxPages,
\* the cancellation flag was set, page 1 gave no products, or page 1
\* raised an error.
C11_NoPageBeyondMaxPages ==
    /\ WithinMaxPages
    /\ CrawlStopped =>
          \/ ListedStopReason
          \/ Len(pageLog) = 1 /\ pageLog[1].outcome = "empty"
          \/ Len(pageLog) = 1 /\ pageLog[1].outcome = "error"
                               /\ crawlOutcome = "error"

\* a crawl that ended at the page limit only: every page up to maxPages
\* gave products and the stop button was not clicked
C11_Witness ==
    /\ CrawlEnded
    /\ maxPages >= 2
    /\ Len(pageLog) = maxPages
    /\ pageNumber = maxPages + 1
    /\ navigated = 2..maxPages
    /\ consecutiveFailures = 0
    /\ ~wasStopped
    /\ stopAt = NoStop

\* what C12 says happens when a page n > 1 fails
FailureRule ==
    /\ consecutiveFailures' = consecutiveFailures + 1
    /\ allProducts' = allProducts
    /\ IF consecutiveFailures' < maxConsecutiveFailures
       THEN crawlPc' = "delay" /\ pageNumber' = pageNumber + 1
       ELSE crawlPc' = "saving" /\ consecutiveFailures' = 2

\* navigateAndExtractMarkdown settles without a text for the page: the
\* attempt was rejected (timeout, navigation or extraction error) or the
\* text is empty
AttemptFailed == crawlPc = "navigate" /\ crawlPc' \notin {"navigate", "execute"}

\* the saved code raises an error on the text of the page
ExecutionError == crawlPc = "execute" /\ Evaluates("error")

\* C12 as stated: every navigation timeout, exhausted extraction or
\* execution error on a page n > 1 increments the counter by one, leaves
\* the products unchanged and is followed by page n+1 unless the counter
\* reached 2.
C12_EveryFailureSkipsThePage ==
    [][(AttemptFailed \/ ExecutionError) => FailureRule]_vars

\* C12 amended: a rejected navigation attempt (timeout, navigation error,
\* exhausted extraction) is first retried on the same page, up to 3
\* attempts, without touching the counter, the products or the page
\* number; a page n > 1 whose attempts are all rejected, whose text is
\* empty or on which the code raises an error increments the counter by
\* exactly one, leaves the products unchanged and is followed by page
\* n+1, the crawl ending only when the counter thereby reaches 2.
C12_FailedPageSkippedAfterRetries ==
    [][/\ (AttemptFailed /\ crawlPc' = "navRetryDelay") =>
             /\ navAttempt < MaxNavAttempts - 1
             /\ UNCHANGED <<consecutiveFailures, allProducts, pageNumber,
                            pageLog, hasMorePages, navAttempt>>
       /\ (crawlPc = "navRetryDelay" /\ crawlPc' # crawlPc) =>
             /\ crawlPc' = "navigate"
             /\ navAttempt' = navAttempt + 1
             /\ UNCHANGED <<consecutiveFailures, allProducts, pageNumber,
                            pageLog, navigated>>
       /\ (pageNumber >= 2 /\ Evaluates("error")) =>
             /\ FailureRule
             /\ pageLog'[Len(pageLog')].page = pageNumber]_vars

\* page 2 failed on its third navigation attempt and the crawl went on to
\* page 3 with the products of page 1
C12_Witness ==
    /\ Len(pageLog) = 2
    /\ pageLog[2].outcome = "error"
    /\ navAttempt = MaxNavAttempts - 1
    /\ consecutiveFailures = 1
    /\ pageNumber = 3
    /\ crawlPc = "delay"
    /\ allProducts = pageLog[1].products
    /\ Len(allProducts) > 0

\* s is an initial part of t
IsPrefixOf(s, t) == Len(s) <= Len(t) /\ SubSeq(t, 1, Len(s)) = s

\* the pages evaluated so far are 1, 2, 3, ... in this order, and
\* allProducts is the concatenation of their results
InPageOrder ==
    /\ \A i \in 1..Len(pageLog) : pageLog[i].page = i
    /\ \A i, j \in 1..Len(pageLog) :
          i < j => pageLog[i].page < pageLog[j].page
    /\ \A i \in 1..Len(pageLog) :
          (pageLog[i].outcome # "products") = (pageLog[i].products = <<>>)
    /\ allProducts = ProductsOf(pageLog)

\* within one crawl a step adds pages at the end of the log and products
\* at the end of the list, and changes nothing that is already there
OnlyAppends ==
    crawls' = crawls =>
        /\ IsPrefixOf(pageLog, pageLog')
        /\ IsPrefixOf(allProducts, allProducts')
        /\ Len(pageLog') <= Len(pageLog) + 1
        /\ Len(pageLog') = Len(pageLog) + 1 =>
              /\ pageLog'[Len(pageLog')].page = pageNumber
              /\ allProducts' =
                     allProducts \o pageLog'[Len(pageLog')].products

\* C13: pages are processed in strictly increasing page-number order, no
\* page twice; allProducts is always the concatenation, in page order, of
\* the results of the non-empty pages processed so far, each in the order
\* the code returned it; products once accumulated are never removed or
\* reordered.
C13_ProductsInPageOrder == []InPageOrder /\ [][OnlyAppends]_vars

\* products of pages 1 and 3, with an empty page 2 in between
C13_Witness ==
    /\ Len(pageLog) = 3
    /\ pageLog[2].outcome = "empty"
    /\ Len(pageLog[1].products) = 2
    /\ Len(pageLog[3].products) = 2
    /\ allProducts = <<Product(1, 1), Product(1, 2),
                       Product(3, 1), Product(3, 2)>>

\* positions of the handler at which a page is being processed
ProcessingPage == {"page1", "navigate", "navRetryDelay", "execute"}

\* the stop button was clicked while page stopAt.pages + 1 was processed
StoppedDuringPage == stopAt.pc \in ProcessingPage

\* C14: when the flag is set while page n is being processed, page n is
\* processed to its end and its products, if any, are appended and saved,
\* but page n+1 and the pages after it are neither navigated to nor
\* evaluated.
C14_StopDuringPage ==
    StoppedDuringPage =>
        LET n == stopAt.pages + 1
        IN  /\ Len(pageLog) <= n
            /\ navigated \subseteq 2..n
            /\ allProducts = ProductsOf(pageLog)
            /\ crawlPc \in ProcessingPage =>
                  Len(pageLog) = n - 1 /\ pageNumber = n
            /\ crawlPc \notin ProcessingPage =>
                  /\ Len(pageLog) = n
                  /\ pageLog[n].page = n
                  /\ crawlPc \in {"delay", "saving", "idle"}
            /\ (CrawlEnded /\ crawlOutcome # "error") =>
                  /\ saveCalls = 1
                  /\ savedContent = ProductsOf(pageLog)
                  /\ wasStopped
                  /\ crawlOutcome = "Stopped"
            /\ (CrawlEnded /\ crawlOutcome = "error") =>
                  n = 1 /\ pageLog[1].outcome = "error"

\* the button was clicked while the code ran on page 2: the products of
\* page 2 were saved with those of page 1 and page 3 was not begun
C14_Witness ==
    /\ CrawlEnded
    /\ stopAt = [pc |-> "execute", pages |-> 1]
    /\ maxPages >= 3
    /\ Len(pageLog) = 2
    /\ pageLog[2].outcome = "products"
    /\ savedContent = pageLog[1].products \o pageLog[2].products
    /\ consecutiveFailures = 0
    /\ crawlOutcome = "Stopped"

\* ------------------------------------------------------------------------
\* Properties of navigateAndExtractMarkdown (checked under SpecNav)
\* ------------------------------------------------------------------------

\* the promise of the call is settled
NavSettled == navPromise \in {"resolved", "rejected"}

\* the ways the callback started by a match settles the call
ExtractionOutcomes ==
    {"markdown", "empty", "conversionFailed", "exception", "noContent"}

\* the guard `resolved` between the timer and the match: after the timeout
\* no event starts the extraction, after a match the timer does not
\* reject, and the extraction is set up at most once
TimerAndMatchExclusive ==
    /\ firstEvent = "timeout" => extractionStarts = 0 /\ navPhase = "none"
    /\ extractionStarts >= 1 => navOutcome # "timeout" /\ ~timeoutArmed
    /\ extractionStarts <= 1

\* C15: a navigation attempt is settled by the first of a matching
\* load-complete event, the timeout and a navigation error: after the
\* timeout no load-complete event starts the extraction, a taken match is
\* not rejected by the timeout, the extraction is started at most once,
\* and what came first decides how the attempt settles.
C15_SettledByFirstEvent ==
    /\ TimerAndMatchExclusive
    /\ NavSettled =>
          /\ firstEvent = "timeout" => navOutcome = "timeout"
          /\ firstEvent = "navigationError" => navOutcome = "navigationError"
          /\ firstEvent = "match" => navOutcome \in ExtractionOutcomes

\* C16: the extraction is started only by a 'complete' event whose url is
\* equal, after normalisation (scheme, host, path, sorted query), to the
\* normalised target; the url of another page, such as the page of the
\* listing loaded before, never starts it.
C16_OnlyTargetUrlMatches ==
    extractionStarts >= 1 =>
        normalizeUrlForComparison(matchedUrl)
            = normalizeUrlForComparison(navTarget)

\* ------------------------------------------------------------------------
\* Properties of the parser cache (checked under SpecGen)
\* ------------------------------------------------------------------------

\* the segments of a path: the parts between its slashes
RECURSIVE SplitAtSlashes(_, _)
SplitAtSlashes(chars, segment) ==
    LET done == IF segment = <<>> THEN <<>> ELSE <<segment>>
    IN  IF chars = <<>> THEN done
        ELSE IF chars[1] = "/"
             THEN done \o SplitAtSlashes(Tail(chars), <<>>)
             ELSE SplitAtSlashes(Tail(chars), Append(segment, chars[1]))

PathSegments(path) == SplitAtSlashes(path, <<>>)

\* the path of u is a segment-aligned prefix of the path of v, on the same
\* protocol and host
SegmentPrefix(u, v) ==
    /\ IsParseable(u) /\ IsParseable(v)
    /\ u.protocol = v.protocol
    /\ u.hostname = v.hostname
    /\ IsPrefixOf(PathSegments(u.pathname), PathSegments(v.pathname))

PrefixRelated(u, v) == SegmentPrefix(u, v) \/ SegmentPrefix(v, u)

PrefixEntries ==
    {k \in DOMAIN cache : SegmentPrefix(cache[k].url, lookupUrl)}

\* number of segments of the path an entry was stored for
PathLength(k) == Len(PathSegments(cache[k].url.pathname))

\* the lookup returned, the storage answered and there is no exact-key entry
PrefixLookupDone ==
    /\ lookupPc = "returned"
    /\ storageFault = "none"
    /\ StorageKey(lookupUrl) \notin DOMAIN cache

\* C18: with two or more entries whose paths are segment-aligned prefixes
\* of the requested path (same scheme and host) and no exact-key entry,
\* the lookup returns the code of the entry with the longest stored path,
\* whatever the query strings of the stored urls.
C18_LongerPathWins ==
    (PrefixLookupDone /\ Cardinality(PrefixEntries) >= 2) =>
        \E k \in PrefixEntries :
            /\ lookupResult = cache[k].code
            /\ \A o \in PrefixEntries : PathLength(o) <= PathLength(k)

\* https://a/s, the page a parser is stored for in the examples of C19
ShopUrl == ParsedUrl(HTTPS, HostA, PathS, <<>>)

\* C19: the prefix lookup returns the code of an entry only if the entry
\* has the protocol and host of the requested url and its path is a
\* segment-aligned prefix of the requested path, and it returns null only
\* if there is no such entry; a parser stored for /s matches /s and /s/x
\* but not /sh, nor /s on another host or /s/x under another protocol.
C19_PrefixMatchIsSegmentAligned ==
    /\ PrefixLookupDone =>
          IF lookupResult = EmptyCode
          THEN PrefixEntries = {}
          ELSE \E k \in PrefixEntries : lookupResult = cache[k].code
    /\ \A saved \in StoredUrls, current \in LookupUrls :
          isUrlPrefix(saved, current) = SegmentPrefix(saved, current)
    /\ isUrlPrefix(ShopUrl, ParsedUrl(HTTPS, HostA, PathS, <<>>))
    /\ isUrlPrefix(ShopUrl, ParsedUrl(HTTPS, HostA, PathSX, <<>>))
    /\ ~isUrlPrefix(ShopUrl, ParsedUrl(HTTPS, HostA, PathSh, <<>>))
    /\ ~isUrlPrefix(ShopUrl, ParsedUrl(HTTPS, HostB, PathS, <<>>))
    /\ ~isUrlPrefix(ShopUrl, ParsedUrl(HTTP, HostA, PathSX, <<>>))

\* the parser of https://a/s is the only one stored and https://a/sh is
\* looked up: nothing is found
C19_Witness ==
    /\ PrefixLookupDone
    /\ DOMAIN cache = {StorageKey(ShopUrl)}
    /\ cache[StorageKey(ShopUrl)].url = ShopUrl
    /\ lookupUrl = ParsedUrl(HTTPS, HostA, PathSh, <<>>)
    /\ lookupResult = EmptyCode

\* C20: loadSavedParserCode returns the code of the exact-key entry when
\* there is one with a code, also when other entries match by prefix;
\* otherwise the code of an entry matching by prefix; otherwise null; it
\* always returns, and a rejected storage call gives null.
C20_ExactThenPrefixThenNull ==
    /\ lookupPc \in {"idle", "returned"}
    /\ lookupPc = "returned" =>
          LET key == StorageKey(lookupUrl)
              exact == key \in DOMAIN cache /\ cache[key].code # EmptyCode
              byPrefix == {k \in PrefixEntries : cache[k].code # EmptyCode}
          IN  CASE storageFault = "exactGet" -> lookupResult = EmptyCode
                [] storageFault # "exactGet" /\ exact ->
                      lookupResult = cache[key].code
                [] storageFault = "listGet" /\ ~exact ->
                      lookupResult = EmptyCode
                [] storageFault = "none" /\ ~exact /\ byPrefix # {} ->
                      \E k \in byPrefix : lookupResult = cache[k].code
                [] OTHER -> lookupResult = EmptyCode

\* https://a/s/x is looked up on a storage holding its own parser and the
\* parser of https://a/s, with different codes: its own is returned
C20_Witness ==
    /\ lookupPc = "returned"
    /\ storageFault = "none"
    /\ lookupUrl = ParsedUrl(HTTPS, HostA, PathSX, <<>>)
    /\ StorageKey(lookupUrl) \in DOMAIN cache
    /\ StorageKey(ShopUrl) \in DOMAIN cache
    /\ cache[StorageKey(ShopUrl)].url = ShopUrl
    /\ cache[StorageKey(ShopUrl)].code # cache[StorageKey(lookupUrl)].code
    /\ lookupResult = cache[StorageKey(lookupUrl)].code

\* ------------------------------------------------------------------------
\* Properties of normalizeUrlForStorage (checked under SpecNormalize)
\* ------------------------------------------------------------------------

\* C21: normalizing a storage key again gives the same key, whether the
\* input string parses as a url or not:
\* normalizeUrlForStorage(normalizeUrlForStorage(u)) = normalizeUrlForStorage(u)
C21_NormalizeIdempotent ==
    callPc = "renormalized" => callResults[2] = callResults[1]

\* reached: a url that parses and whose key differs from it was normalized
\* twice, the key holding a replaced character
C21_Witness ==
    /\ callPc = "renormalized"
    /\ IsParseable(ParseUrl(callArg))
    /\ callResults[1] # callArg
    /\ \E i \in 1..Len(callResults[1]) : callResults[1][i] = "_"

\* ------------------------------------------------------------------------
\* Properties of validateExtractedProducts (checked under SpecValidate)
\* ------------------------------------------------------------------------

\* the elements of an array that are objects with a truthy name, priceRaw
\* or priceNormalized
EssentialElements(items) ==
    {i \in 1..Len(items) :
        /\ items[i] \notin {Null, Primitive}
        /\ \E f \in {"name", "priceRaw", "priceNormalized"} : items[i][f]}

Rejected(result) == ~result.isValid /\ result.error # NoError

Accepted(result) == result.isValid

\* C22: validateExtractedProducts rejects, with a reason, exactly when
\* the input is not an array, is an empty array, or has no element that is
\* an object with a truthy name, priceRaw or priceNormalized; otherwise it
\* accepts.  [] is rejected, an array of one named object is accepted, an
\* array of one object without the three fields is rejected.
C22_ValidationRule ==
    callPc = "validated" =>
        LET result == callResults[1]
            mustReject ==
                \/ ~callArg.isArray
                \/ callArg.items = <<>>
                \/ EssentialElements(callArg.items) = {}
        IN  /\ Rejected(result) = mustReject
            /\ Accepted(result) = ~mustReject
            /\ callArg = Array(<<>>) => Rejected(result)
            /\ callArg = Array(<<Obj(TRUE, FALSE, FALSE)>>) => Accepted(result)
            /\ callArg = Array(<<Obj(FALSE, FALSE, FALSE)>>) => Rejected(result)

\* reached: an array whose only essential element has nothing but a
\* priceNormalized, after an element that is not an object, was accepted
C22_Witness ==
    /\ callPc = "validated"
    /\ callArg = Array(<<Primitive, Obj(FALSE, FALSE, TRUE)>>)
    /\ Accepted(callResults[1])

\* ------------------------------------------------------------------------
\* Properties of executeParserCode inside the reflection loop (SpecGen)
\* ------------------------------------------------------------------------

\* the iterations in which executeParserCode was called
Executed(attempt) == attempt.outcome \in {"accepted", "invalid", "execError"}

\* C23: executeParserCode fails with an execution error whenever the
\* generated code throws, defines no extractProducts, or extractProducts
\* returns a value that is not an array, and otherwise returns the very
\* array extractProducts returned; so the reflection loop never accepts
\* code whose extractProducts returned a non-array.
C23_NonArrayIsExecutionError ==
    \A i \in 1..Len(attempts) :
        Executed(attempts[i]) =>
            LET raw == RunOnSample(attempts[i].code)
            IN  /\ raw.kind # "array" => attempts[i].outcome = "execError"
                /\ attempts[i].outcome = "accepted" => raw.kind = "array"

\* ------------------------------------------------------------------------
\* Properties of parseLLMResponse (checked under SpecParse)
\* ------------------------------------------------------------------------

\* C24: for every non-empty response parseLLMResponse either returns an
\* {explanation, code} result with a non-empty code or fails with the
\* missing-code error, and it fails only when the final code field is
\* empty; no other exception escapes it, whatever the response parses to.
C24_OnlyMissingCodeFailure ==
    callPc = "parsed" =>
        LET result == callResults[1]
        IN  /\ result.outcome \in {"returned", "missingCode"}
            /\ (result.outcome = "missingCode") = Falsy(result.code)

\* the text between the quotes of a JSON string, read as JSON.parse reads
\* it except that raw control characters are taken as they are
RECURSIVE DecodeBody(_, _)
DecodeBody(text, acc) ==
    IF text = <<>> THEN [ok |-> TRUE, chars |-> acc]
    ELSE IF text[1] = Quote THEN [ok |-> FALSE, chars |-> <<>>]
    ELSE IF text[1] = Backslash
         THEN IF Len(text) >= 2 /\ text[2] \in {Quote, Backslash, "n"}
              THEN DecodeBody(SubSeq(text, 3, Len(text)),
                              Append(acc, IF text[2] = "n" THEN Newline
                                          ELSE text[2]))
              ELSE [ok |-> FALSE, chars |-> <<>>]
         ELSE DecodeBody(Tail(text), Append(acc, text[1]))

HasRawControlChar(text) == \E i \in 1..Len(text) : text[i] \in ControlChars

\* the response is a well-formed {explanation, code} object but for the
\* raw control characters of its code string
BrokenOnlyByControlChars(response, text) ==
    /\ response = ObjectOf(text)
    /\ DecodeBody(text, <<>>).ok
    /\ HasRawControlChar(text)

\* C25: a response that is a well-formed {explanation, code} object except
\* for literal control characters in the code string is parsed through the
\* sanitize path, and the code returned is the original code text with
\* those control characters kept as they are.
C25_ControlCharsSurviveSanitize ==
    callPc = "parsed" =>
        \A text \in CodeTexts :
            BrokenOnlyByControlChars(callArg, text) =>
                /\ callResults[1].path = "sanitized"
                /\ callResults[1].outcome = "returned"
                /\ callResults[1].code = JString(DecodeBody(text, <<>>).chars)

\* ------------------------------------------------------------------------
\* generateAndSaveParser without a tabId, and malformed responses (SpecGen)
\* ------------------------------------------------------------------------

\* the iterations that ended without a code: the model call was rejected
\* or its response held no code
WithoutCode(attempt) == attempt.outcome \in {"transport", "malformed"}

\* C26: in a call without a tabId the executor is never invoked and nothing
\* is validated; the code of the first iteration whose response parses to
\* a non-empty code is persisted in the cache and returned, and no model
\* call follows.
C26_NoTabIdSavesFirstParsedCode ==
    (genPc # "idle" /\ ~genTab) =>
        /\ execCalls = 0
        /\ genPc # "execute"
        /\ \A i \in 1..Len(attempts) :
              \/ WithoutCode(attempts[i])
              \/ /\ attempts[i].outcome = "unvalidated"
                 /\ attempts[i].code # EmptyCode
                 /\ i = Len(attempts)
                 /\ modelCalls = i
                 /\ genPc = "returned"
                 /\ genResult = attempts[i].code
                 /\ CacheHolds(attempts[i].code)
        /\ genPc = "returned" =>
              /\ attempts # <<>>
              /\ attempts[Len(attempts)].outcome = "unvalidated"

\* reached: a call without a tabId whose first response was malformed
\* returned the code of its second response, a code that throws when run
C26_Witness ==
    /\ ~genTab
    /\ genPc = "returned"
    /\ Len(attempts) = 2
    /\ attempts[1].outcome = "malformed"
    /\ ThrowsOnSample(genResult)
    /\ CacheHolds(genResult)

\* an iteration ends on a malformed response in the step
MalformedStep ==
    /\ Len(attempts') = Len(attempts) + 1
    /\ attempts'[Len(attempts')].outcome = "malformed"

\* what such a step does: no executor call, nothing persisted, and the
\* iteration is used up (the next one starts, or the call fails at the
\* third)
MalformedRule ==
    MalformedStep =>
        /\ execCalls' = execCalls
        /\ genPc' # "execute"
        /\ cache' = cache
        /\ cacheWrites' = cacheWrites
        /\ genResult' = EmptyCode
        /\ Len(attempts') = iteration
        /\ IF iteration < MAX_ITERATIONS
           THEN iteration' = iteration + 1 /\ genPc' = "callModel"
           ELSE genPc' = "failed"

\* C27: in an iteration whose model response is malformed the executor is
\* not invoked and nothing is persisted; the iteration still counts
\* against the budget of 3.
C27_MalformedIterationCounts == [][MalformedRule]_vars

\* reached: three malformed responses in a row used up the budget, the call
\* failed without an executor call and without a cache write
C27_Witness ==
    /\ genPc = "failed"
    /\ Len(attempts) = MAX_ITERATIONS
    /\ \A i \in 1..Len(attempts) : attempts[i].outcome = "malformed"
    /\ modelCalls = MAX_ITERATIONS
    /\ execCalls = 0
    /\ cacheWrites = 0

\* the failure reason of a recorded attempt
ReasonOf(attempt) ==
    CASE attempt.outcome = "transport" -> ErrTransport
      [] attempt.outcome = "malformed" -> ErrMissingCode
      [] attempt.outcome = "execError" -> ErrExecution
      [] OTHER ->
            validateExtractedProducts(
                Array(executeParserCode(RunOnSample(attempt.code)).products)
            ).error

\* C30: the reflection prompt of iteration k+1 embeds the code generated
\* in iteration k and the failure reason of iteration k; the code and the
\* error of one prompt come from the same attempt, also when iteration k
\* failed by a transport error or a malformed response.
C30_PromptShowsOneAttempt ==
    (genPc = "callModel" /\ iteration >= 2) =>
        /\ prompt.variant = "reflection"
        /\ prompt.iteration = iteration - 1
        /\ prompt.error = ReasonOf(attempts[iteration - 1])
        /\ prompt.previousCode = attempts[iteration - 1].code

\* ------------------------------------------------------------------------
\* The crawl without a cached parser (checked under SpecCrawl)
\* ------------------------------------------------------------------------

\* the storage holds no parser for the start url, neither under its key
\* nor for a url that is a prefix of it
NoCachedParser ==
    /\ ~hasExactMatch(cache, crawlUrl)
    /\ prefixMatch(cache, crawlUrl) = {}

\* the current crawl has got the answer of loadSavedParserCode
ParserLookedUp == crawls > 0 /\ crawlPc # "loadParser"

\* C28: when no cached parser is found for the start url, neither by
\* exact nor by prefix match, the crawl fails as a hard failure before any
\* tab navigation, any code execution and any result persistence.
C28_NoParserFailsBeforeAnyWork ==
    (ParserLookedUp /\ NoCachedParser) =>
        /\ savedCode = EmptyCode
        /\ crawlPc = "idle"
        /\ crawlOutcome = "error"
        /\ navigated = {}
        /\ pageLog = <<>>
        /\ allProducts = <<>>
        /\ saveCalls = 0
        /\ savedContent = <<>>

\* reached: a crawl started on a site for which the storage, though not
\* empty, holds no parser has failed
C28_Witness ==
    /\ ParserLookedUp
    /\ NoCachedParser
    /\ cache # EmptyCache
    /\ crawlOutcome = "error"

\* ------------------------------------------------------------------------
\* The handlers of the popup (checked under SpecPopup)
\* ------------------------------------------------------------------------

\* the handlers suspended at a call of the model
ModelCalls == {i \in Running : handlers[i].phase = "modelCall"}

\* the handlers suspended at a page load or an execution of code on the tab
TabWork == {i \in Running : handlers[i].phase \in {"navigate", "execute", "validate"}}

\* C29: under every interleaving of the clicks on the generate, obtain,
\* scrape-all-pages and stop buttons at most one of parser generation,
\* single-page extraction and crawl is in progress at any time, so that no
\* two model calls and no two page loads or code executions on the tab
\* overlap.
C29_OneOperationAtATime ==
    /\ Cardinality(Running) <= 1
    /\ Cardinality(ModelCalls) <= 1
    /\ Cardinality(TabWork) <= 1

\* ------------------------------------------------------------------------
\* The steps of one navigation attempt (checked under SpecNav)
\* ------------------------------------------------------------------------

\* the pings sent so far that were not answered: each is followed by an
\* injection of the content script
FailedProbes == injections

\* C31: within one navigation attempt the liveness probe is sent only after
\* the load-complete match and the settle delay; the content script is
\* re-injected only after a failed probe; at most 5 probes are sent;
\* the extraction starts only after a probe succeeded or all 5 failed; it is
\* attempted at most 3 times; and the attempt is rejected when no extraction
\* attempt yields content.
C31_StepsOrderedAndBounded ==
    /\ probes <= 5
    /\ extractions <= 3
    /\ navPhase \in {"none", "settle"} =>
          probes = 0 /\ injections = 0 /\ extractions = 0
    /\ probes > 0 => extractionStarts = 1 /\ matchedUrl # NoUrl
    /\ FailedProbes <= probes
    /\ navPhase = "probe" => FailedProbes = probes /\ extractions = 0
    /\ (navPhase = "extract" \/ extractions > 0) =>
          \/ FailedProbes = probes - 1
          \/ FailedProbes = 5 /\ probes = 5
    /\ navPhase = "done" =>
          /\ extractions >= 1
          /\ navPromise # "pending"
          /\ navPromise = "resolved" => navOutcome \in {"markdown", "empty"}

\* reached: five pings failed, the script was injected five times, three
\* extractions gave no content and the call was rejected for that reason
C31_Witness ==
    /\ navPhase = "done"
    /\ probes = 5
    /\ injections = 5
    /\ extractions = 3
    /\ navPromise = "rejected"
    /\ navOutcome = "noContent"

\* ------------------------------------------------------------------------
\* The cache after a failed call of generateAndSaveParser (under SpecGen)
\* ------------------------------------------------------------------------

\* C32: if a call of generateAndSaveParser ends in an error, nothing new
\* having been persisted, the parser cache is the same as before the call:
\* no previously stored parser has been removed.
C32_FailedCallLeavesCache ==
    (genPc = "failed" /\ cacheWrites = 0) => superseded = {}

\* ------------------------------------------------------------------------
\* The page a returned parser was stored for (checked under SpecLookup)
\* ------------------------------------------------------------------------

\* host and path of a url, without a leading www. and one trailing slash
HostAndPath(u) ==
    [host |-> StripWww(u.hostname), path |-> StripTrailingSlash(u.pathname)]

\* the path of u is that of v or a segment-aligned prefix of it, on the
\* same host up to a leading www.
SamePageOrAbove(u, v) ==
    /\ StripWww(u.hostname) = StripWww(v.hostname)
    /\ IsPrefixOf(PathSegments(u.pathname), PathSegments(v.pathname))

\* the lookup returned the code of the entry stored under the key of the
\* looked-up url
ExactHit ==
    /\ lookupPc = "returned"
    /\ storageFault = "none"
    /\ hasExactMatch(cache, lookupUrl)

\* C33: whatever loadSavedParserCode(url) returns was stored for a url with
\* the hostname of url (ignoring a leading www.) and with a path equal to,
\* or a segment-aligned prefix of, the path of url; two urls with different
\* host+path (modulo www. and one trailing slash) never share a storage
\* key, so that an exact-key hit never returns the parser of an unrelated
\* page.
C33_ReturnedParserIsOfThePage ==
    /\ ExactHit =>
          /\ lookupResult = cache[StorageKey(lookupUrl)].code
          /\ HostAndPath(cache[StorageKey(lookupUrl)].url)
                = HostAndPath(lookupUrl)
    /\ PrefixLookupDone /\ lookupResult # EmptyCode =>
          \E k \in DOMAIN cache :
              /\ lookupResult = cache[k].code
              /\ SamePageOrAbove(cache[k].url, lookupUrl)
    /\ lookupPc = "returned" =>
          \A k \in DOMAIN cache :
              StorageKey(cache[k].url) = StorageKey(lookupUrl) =>
                  HostAndPath(cache[k].url) = HostAndPath(lookupUrl)

\* ------------------------------------------------------------------------
\* The status a crawl reports (checked under SpecCrawl)
\* ------------------------------------------------------------------------

\* the crawl has saved its results and shown its status
CrawlReported == crawlPc = "idle" /\ crawlOutcome \in {"Stopped", "Completed"}

\* the page loop could have gone on: neither the failure threshold nor an
\* empty first page has ended it, and the page limit is not exceeded
LoopCouldGoOn == hasMorePages /\ pageNumber <= maxPages

\* C34: the crawl reports 'stopped by user' exactly when the page loop was
\* left because of the cancellation flag; a crawl whose loop ended because
\* the failure threshold or the page limit was reached reports 'completed',
\* also when the user pressed stop while its last page was being processed.
C34_StoppedExactlyWhenCutShort ==
    CrawlReported => (crawlOutcome = "Stopped" <=> LoopCouldGoOn)

\* ------------------------------------------------------------------------
\* The cancellation flag between crawls (checked under SpecCrawl)
\* ------------------------------------------------------------------------

\* the stop button was clicked during the current (or last) crawl
StopRequested == stopAt # NoStop

\* C35: the cancellation flag is false whenever no crawl is running: it is
\* reset when a crawl starts and when it ends by any path (normal end,
\* cancellation, error), so that a stop request made during one crawl
\* never cancels or mislabels a later crawl.
C35_FlagFalseBetweenCrawls ==
    /\ crawlPc = "idle" => ~shouldStopScraper
    /\ shouldStopScraper => StopRequested
    /\ crawlPc = "saving" /\ wasStopped => StopRequested
    /\ crawlOutcome = "Stopped" => StopRequested

\* reached: a crawl that was cancelled has ended, the flag is false again
\* and a further crawl may follow
C35_Witness ==
    /\ crawlPc = "idle"
    /\ crawlOutcome = "Stopped"
    /\ StopRequested
    /\ ~shouldStopScraper
    /\ crawls < MaxCrawls

\* ------------------------------------------------------------------------
\* The consecutive-failure counter (checked under SpecCrawl)
\* ------------------------------------------------------------------------

\* the number of pages n > 1 at the end of the log that failed or were
\* empty, one after the other
RECURSIVE FailedInARow(_)
FailedInARow(log) ==
    IF log = <<>> THEN 0
    ELSE LET last == log[Len(log)]
         IN  IF last.page > 1 /\ last.outcome # "products"
             THEN 1 + FailedInARow(SubSeq(log, 1, Len(log) - 1))
             ELSE 0

\* C36: in every reachable state of a crawl the consecutive-failure counter
\* is 0, 1 or 2 and equals the number of most recently processed pages
\* n > 1 that failed or were empty in a row; one page changes it by at most
\* one, however many of its up to 3 navigation attempts failed; and no page
\* is processed after the counter reached 2.
C36_CounterCountsFailedPages ==
    /\ consecutiveFailures \in 0..2
    /\ consecutiveFailures = FailedInARow(pageLog)
    /\ navAttempt \in 0..2
    /\ consecutiveFailures = 2 => crawlPc \in {"saving", "idle"}

\* reached: the loop was left at the threshold after two pages failed one
\* after the other, the second after three rejected navigation attempts
C36_Witness ==
    /\ crawlPc = "saving"
    /\ consecutiveFailures = 2
    /\ navAttempt = 2
    /\ Len(pageLog) >= 3
    /\ pageLog[Len(pageLog)].outcome = "error"
    /\ pageLog[Len(pageLog) - 1].outcome = "empty"

\* ------------------------------------------------------------------------
\* Termination of the navigation attempts and of the crawl (under SpecLive)
\* ------------------------------------------------------------------------

\* the pages of the log have strictly increasing numbers, starting at 1
PagesIncrease ==
    \A i \in DOMAIN pageLog : pageLog[i].page = i

NavSettles ==
    (navPromise = "pending") ~> (navPromise \in {"resolved", "rejected"})

CrawlTerminates == (crawlPc # "idle") ~> (crawlPc = "idle")

\* C37: provided every call to the host (navigation, probe, injection,
\* extraction, execution) returns or fails, every navigation attempt
\* eventually settles (resolved with text or rejected, at the latest
\* through the timeout when no matching load-complete event arrives), and
\* every crawl eventually terminates after at most maxPages page
\* iterations, the page number strictly increasing in each iteration.
C37_AttemptsSettleAndCrawlEnds ==
    /\ NavSettles
    /\ CrawlTerminates
    /\ [](PagesIncrease /\ Len(pageLog) <= maxPages)

\* reached: the last attempt of the last page was rejected by the timeout,
\* no matching event having arrived, and the crawl has ended
C37_Witness ==
    /\ crawlPc = "idle"
    /\ crawlOutcome = "Completed"
    /\ Len(pageLog) = maxPages
    /\ maxPages > 1
    /\ navAttempt = 2
    /\ firstEvent = "timeout"
    /\ navOutcome = "timeout"

\* a step that starts a navigation attempt of the crawl
NavigationStarts == crawlPc # "navigate" /\ crawlPc' = "navigate"

\* C38: once the cancellation flag is set, the crawl starts no navigation
\* attempt any more, neither for the next page nor as a retry of the page
\* in flight
C38_NoNavigationAfterStop ==
    [][shouldStopScraper => ~NavigationStarts]_vars

\* after the flag is set no navigation of a further page is started: a
\* navigation started then is a retry of the page in flight
StopEndsPaging ==
    [][(shouldStopScraper /\ NavigationStarts) =>
          (navAttempt' > 0 /\ navigated' = navigated)]_vars

\* JSON.parse threw on the text of the response, so that the text was
\* handed to sanitizeJsonString
SanitizeApplied ==
    callPc = "parsed" /\ JSONParse(jsonToParse(callArg)).threw

\* the quotes around the code string value as sanitizeJsonString finds
\* them: the first quote after the colon after "code", and the first quote
\* after it that is preceded by an even number of backslashes
CodeSpan(jsonString) ==
    LET codeFieldStart == IndexOf(jsonString, CodeKey, 1)
        colonIndex == IndexOf(jsonString, <<":">>, codeFieldStart)
        quoteStart == IndexOf(jsonString, <<Quote>>, colonIndex)
        quoteEnd == ClosingQuote(jsonString, quoteStart + 1)
    IN  IF codeFieldStart = 0 \/ colonIndex = 0 \/ quoteStart = 0
           \/ quoteEnd = 0
        THEN [found |-> FALSE, open |-> 0, close |-> 0]
        ELSE [found |-> TRUE, open |-> quoteStart, close |-> quoteEnd]

\* the text with its literal control characters replaced by their escapes
\* and every other character kept
RECURSIVE OnlyControlCharsEscaped(_)
OnlyControlCharsEscaped(s) ==
    IF s = <<>> THEN <<>>
    ELSE (CASE s[1] = Newline -> <<Backslash, "n">>
            [] s[1] = "\r" -> <<Backslash, "r">>
            [] s[1] = Tab -> <<Backslash, "t">>
            [] OTHER -> <<s[1]>>)
         \o OnlyControlCharsEscaped(Tail(s))

\* what sanitizeJsonString leaves of the text outside the code string
\* value: everything up to the opening quote and from the closing quote on
SanitizeKeepsOutside ==
    SanitizeApplied =>
        LET text == jsonToParse(callArg)
            out == sanitizeJsonString(text)
            span == CodeSpan(text)
            grown == Len(out) - Len(text)
        IN  IF ~span.found THEN out = text
            ELSE /\ grown >= 0
                 /\ SubSeq(out, 1, span.open) = SubSeq(text, 1, span.open)
                 /\ SubSeq(out, span.close + grown, Len(out))
                        = SubSeq(text, span.close, Len(text))

\* C39: sanitizeJsonString changes only the span of the code string value
\* and inside it only the literal control characters: the text outside the
\* span and every escaped sequence inside it are kept, so that the output
\* decodes to the same code text.
C39_SanitizeChangesOnlyControlChars ==
    /\ SanitizeKeepsOutside
    /\ SanitizeApplied =>
          LET text == jsonToParse(callArg)
              out == sanitizeJsonString(text)
              span == CodeSpan(text)
              grown == Len(out) - Len(text)
              body == SubSeq(text, span.open + 1, span.close - 1)
              outBody == SubSeq(out, span.open + 1, span.close - 1 + grown)
          IN  span.found =>
                 /\ outBody = OnlyControlCharsEscaped(body)
                 /\ DecodeBody(body, <<>>).ok =>
                        DecodeBody(outBody, <<>>) = DecodeBody(body, <<>>)

====
